---- MODULE Spec2Model ----
(***************************************************************************)
(* A model of kube-rightsizer: the quantity codec (parse_resource_value,   *)
(* format_resource_value, resources_are_same), the recommendation engine   *)
(* (calculate_recommendations), the three renderers (format_as_yaml,       *)
(* format_as_table, format_as_html_table) and the orchestrator (main,      *)
(* analyze_pod, get_all_pods, query_prometheus).                           *)
(*                                                                         *)
(* Python strings are sequences of one-character strings, so that parsing  *)
(* and formatting are computed character by character.  Python floats are  *)
(* exact rationals n/d * 2^e2 * 5^e5 (n, d coprime to each other and to    *)
(* 10): every conversion factor of the codec is a product of powers of 2   *)
(* and 5, so quantities from nanocores to gigabytes stay inside TLC's      *)
(* integers.  IEEE rounding of the floats is modelled for the round trip   *)
(* of the codec alone (the binary64 layer at the end), nowhere else.       *)
(***************************************************************************)
EXTENDS Integers, Sequences, FiniteSets, TLC

VARIABLES
    pc,              \* position of the run / which pure function was applied
    pin,             \* the input of the codec function under study
    pout,            \* the codec function's outcome
    cin,             \* the arguments of the function under study
    cout,            \* that function's outcome
    recommendations, \* main: the result list / the renderers' input
    table_output,    \* format_as_table's outcome
    html_table_output, \* format_as_html_table's outcome
    yaml_output,     \* format_as_yaml's outcome
    env,             \* the cluster, the metrics source and the settings of a run
    pods,            \* main: the list returned by get_all_pods
    idx,             \* main: position in the loop over pods
    log,             \* the messages printed for caught failures
    file,            \* resource-recommendations.yaml
    slack            \* the calls of send_to_slack and their outcome

vars == <<pc, pin, pout, cin, cout, recommendations, table_output,
          html_table_output, yaml_output, env, pods, idx, log, file, slack>>

----------------------------------------------------------------------------
(* Exact arithmetic standing for Python's float.                           *)

Cap == 2^30

Abs(x) == IF x < 0 THEN -x ELSE x

Min(x, y) == IF x < y THEN x ELSE y

RECURSIVE Gcd(_, _)
Gcd(a, b) == IF b = 0 THEN a ELSE Gcd(b, a % b)

RECURSIVE Pow(_, _)
Pow(b, k) == IF k <= 0 THEN 1 ELSE b * Pow(b, k - 1)

RECURSIVE Mult(_, _)
Mult(x, p) == IF x # 0 /\ x % p = 0 THEN 1 + Mult(x \div p, p) ELSE 0

Zero == [n |-> 0, d |-> 1, e2 |-> 0, e5 |-> 0]

\* n/d * 2^e2 * 5^e5 in canonical form (d > 0)
Norm(n, d, e2, e5) ==
    LET Factored(n1, d1, a2, a5, b2, b5) ==
            [n |-> n1 \div (Pow(2, a2) * Pow(5, a5)),
             d |-> d1 \div (Pow(2, b2) * Pow(5, b5)),
             e2 |-> e2 + a2 - b2, e5 |-> e5 + a5 - b5]
        Lowest(n1, d1) ==
            Factored(n1, d1, Mult(n1, 2), Mult(n1, 5), Mult(d1, 2), Mult(d1, 5))
        Reduced(g) == Lowest(n \div g, d \div g)
    IN  IF n = 0 THEN Zero ELSE Reduced(Gcd(Abs(n), d))

Int2Num(k) == Norm(k, 1, 0, 0)

Rat(n, d) == Norm(n, d, 0, 0)

Sign(a) == IF a.n > 0 THEN 1 ELSE IF a.n < 0 THEN -1 ELSE 0

Neg(a) == [a EXCEPT !.n = -a.n]

AbsNum(a) == [a EXCEPT !.n = Abs(a.n)]

Mul(a, b) ==
    LET Crossed(g1, g2) ==
            Norm((a.n \div g1) * (b.n \div g2), (a.d \div g2) * (b.d \div g1),
                 a.e2 + b.e2, a.e5 + b.e5)
    IN  IF a.n = 0 \/ b.n = 0 THEN Zero
        ELSE Crossed(Gcd(Abs(a.n), b.d), Gcd(Abs(b.n), a.d))

Inv(a) == [n |-> IF a.n < 0 THEN -a.d ELSE a.d, d |-> Abs(a.n),
           e2 |-> -a.e2, e5 |-> -a.e5]

Div(a, b) == Mul(a, Inv(b))

Add(a, b) ==
    LET Aligned(m2, m5) ==
            Norm(a.n * Pow(2, a.e2 - m2) * Pow(5, a.e5 - m5) * b.d
                   + b.n * Pow(2, b.e2 - m2) * Pow(5, b.e5 - m5) * a.d,
                 a.d * b.d, m2, m5)
    IN  IF a.n = 0 THEN b
        ELSE IF b.n = 0 THEN a
        ELSE Aligned(Min(a.e2, b.e2), Min(a.e5, b.e5))

Sub(a, b) == Add(a, Neg(b))

\* products that stop at Cap instead of leaving TLC's integers
SatMul(x, y) == IF x = 0 \/ y = 0 THEN 0
                ELSE IF x >= Cap \/ y >= Cap \/ x > Cap \div y THEN Cap
                ELSE x * y

RECURSIVE SatPow(_, _)
SatPow(b, k) == IF k <= 0 THEN 1 ELSE SatMul(b, SatPow(b, k - 1))

\* numerator and denominator of a positive number as (saturating) integers
NumOf(a) == SatMul(a.n, SatMul(SatPow(2, a.e2), SatPow(5, a.e5)))
DenOf(a) == SatMul(a.d, SatMul(SatPow(2, -a.e2), SatPow(5, -a.e5)))

\* a < b for a, b > 0: a/b < 1.  Undefined (TLC stops) when both sides saturate.
LessPos(a, b) ==
    LET Below(x, y) ==
            IF x >= Cap /\ y >= Cap THEN CHOOSE u \in {} : TRUE ELSE x < y
        BelowOne(r) == Below(NumOf(r), DenOf(r))
    IN  BelowOne(Div(a, b))

Less(a, b) ==
    IF Sign(a) # Sign(b) THEN Sign(a) < Sign(b)
    ELSE IF Sign(a) = 0 THEN FALSE
    ELSE LessPos(IF Sign(a) = 1 THEN a ELSE Neg(b),
                 IF Sign(a) = 1 THEN b ELSE Neg(a))

Leq(a, b) == ~Less(b, a)

\* Python's max(a, b): a unless b is greater
Max(a, b) == IF Less(a, b) THEN b ELSE a

\* Python's int(x): truncation toward zero
Trunc(a) ==
    LET Quotient(x, y) ==
            IF y >= Cap /\ x < Cap THEN 0
            ELSE IF x >= Cap THEN CHOOSE u \in {} : TRUE
            ELSE x \div y
        Floor(p) == Quotient(NumOf(p), DenOf(p))
    IN  Sign(a) * Floor(AbsNum(a))

----------------------------------------------------------------------------
(* Strings.                                                                *)

Digits == <<"0", "1", "2", "3", "4", "5", "6", "7", "8", "9">>

IsDigit(c) == \E i \in 1..10 : Digits[i] = c

DigitVal(c) == (CHOOSE i \in 1..10 : Digits[i] = c) - 1

IsSpace(c) == c = " "

RECURSIVE LStrip(_)
LStrip(s) == IF s # <<>> /\ IsSpace(Head(s)) THEN LStrip(Tail(s)) ELSE s

RECURSIVE RStrip(_)
RStrip(s) == IF s # <<>> /\ IsSpace(s[Len(s)])
             THEN RStrip(SubSeq(s, 1, Len(s) - 1)) ELSE s

\* str.strip()
Strip(s) == RStrip(LStrip(s))

\* str.endswith(suffix)
EndsWith(s, suffix) ==
    /\ Len(s) >= Len(suffix)
    /\ SubSeq(s, Len(s) - Len(suffix) + 1, Len(s)) = suffix

\* s[:-k]
DropLast(s, k) == SubSeq(s, 1, Len(s) - k)

\* str(k) for an integer k
RECURSIVE NatToStr(_)
NatToStr(k) == IF k < 10 THEN <<Digits[k + 1]>>
               ELSE Append(NatToStr(k \div 10), Digits[(k % 10) + 1])

IntToStr(k) == IF k < 0 THEN <<"-">> \o NatToStr(-k) ELSE NatToStr(k)

----------------------------------------------------------------------------
(* The quantity codec: src/main.py.                                        *)

\* the outcome of a call: a returned value, or an exception raised
Return(v) == [raised |-> FALSE, val |-> v]
Raise == [raised |-> TRUE, val |-> Zero]

NA == <<"N", "/", "A">>

RECURSIVE DigitsVal(_)
DigitsVal(s) == IF s = <<>> THEN 0
                ELSE 10 * DigitsVal(DropLast(s, 1)) + DigitVal(s[Len(s)])

\* float(s) for the strings of the model: surrounding whitespace, a sign,
\* digits with at most one point and at least one digit; ValueError otherwise.
\* (Exponents, "inf", "nan" and "_" cannot be written in the model's alphabet.)
ParseFloat(s) ==
    LET Literal(neg, u, dots) ==
            LET Value(k, f) == Norm(IF neg THEN -k ELSE k, 1, -f, -f)
            IN  IF /\ \A i \in 1..Len(u) : IsDigit(u[i]) \/ u[i] = "."
                   /\ Cardinality(dots) <= 1
                   /\ \E i \in 1..Len(u) : IsDigit(u[i])
                THEN Return(Value(DigitsVal(SelectSeq(u, IsDigit)),
                                  IF dots = {} THEN 0
                                  ELSE Len(u) - (CHOOSE i \in dots : TRUE)))
                ELSE Raise
        Unsigned(neg, u) == Literal(neg, u, {i \in 1..Len(u) : u[i] = "."})
        Signed(t) ==
            Unsigned(t # <<>> /\ Head(t) = "-",
                     IF t # <<>> /\ Head(t) \in {"+", "-"} THEN Tail(t) ELSE t)
    IN  Signed(Strip(s))

\* 2^e2 * 5^e5
Scale(e2, e5) == [n |-> 1, d |-> 1, e2 |-> e2, e5 |-> e5]

\* a table that takes the decimal M for the binary Mi
UnitsDecimalAsBinary ==
    <<[suffix |-> <<"m">>,      factor |-> Scale(-3, -3)],
      [suffix |-> <<"n">>,      factor |-> Scale(-9, -9)],
      [suffix |-> <<"M", "i">>, factor |-> Scale(20, 0)],
      [suffix |-> <<"G", "i">>, factor |-> Scale(30, 0)],
      [suffix |-> <<"M">>,      factor |-> Scale(20, 0)],
      [suffix |-> <<"G">>,      factor |-> Scale(9, 9)]>>

\* the suffixes in the order lines 230-245 test them, each with the factor its
\* prefix is multiplied by: /1000.0, /1000000000.0, *1024*1024,
\* *1024*1024*1024, *1000*1000, *1000*1000*1000
Units ==
    <<[suffix |-> <<"m">>,      factor |-> Scale(-3, -3)],
      [suffix |-> <<"n">>,      factor |-> Scale(-9, -9)],
      [suffix |-> <<"M", "i">>, factor |-> Scale(20, 0)],
      [suffix |-> <<"G", "i">>, factor |-> Scale(30, 0)],
      [suffix |-> <<"M">>,      factor |-> Scale(6, 6)],
      [suffix |-> <<"G">>,      factor |-> Scale(9, 9)]>>

\* the first suffix value ends with; none (0) is the try block of lines 246-249
Unit(value) ==
    IF \E i \in 1..Len(Units) : EndsWith(value, Units[i].suffix)
    THEN CHOOSE i \in 1..Len(Units) :
            /\ EndsWith(value, Units[i].suffix)
            /\ \A j \in 1..(i - 1) : ~EndsWith(value, Units[j].suffix)
    ELSE 0

\* float(prefix) * factor outside any try block; float(value) inside one
Scaled(value, unit) ==
    LET Converted(x) ==
            IF unit = 0 THEN IF x.raised THEN Return(Zero) ELSE x
            ELSE IF x.raised THEN Raise
            ELSE Return(Mul(x.val, Units[unit].factor))
    IN  Converted(ParseFloat(IF unit = 0 THEN value
                             ELSE DropLast(value, Len(Units[unit].suffix))))

parse_resource_value(value) ==
    IF value = NA \/ value = <<>> THEN Return(Zero)
    ELSE Scaled(Strip(value), Unit(Strip(value)))

\* value * 1000 and value / 1024 / 1024 (a division by 2^20)
format_resource_value(value, resource_type) ==
    IntToStr(Trunc(Mul(value, IF resource_type = "cpu" THEN Scale(3, 3)
                              ELSE Scale(-20, 0))))
        \o (IF resource_type = "cpu" THEN <<"m">> ELSE <<"M", "i">>)

\* dict.get(key, default)
Get(dict, key, default) == IF key \in DOMAIN dict THEN dict[key] ELSE default

Tolerance == Scale(-3, -3)

\* the four quantities of a resources dict, in the order lines 253-261 read them
Fields == <<<<"requests", "cpu">>, <<"requests", "memory">>,
            <<"limits", "cpu">>, <<"limits", "memory">>>>

resources_are_same(current, recommended) ==
    LET Compared(cur, rec) ==
            IF \E i \in 1..Len(Fields) : cur[i].raised \/ rec[i].raised
            THEN [raised |-> TRUE, val |-> FALSE]
            ELSE [raised |-> FALSE,
                  val |-> \A i \in 1..Len(Fields) :
                             Less(AbsNum(Sub(cur[i].val, rec[i].val)), Tolerance)]
        Parsed(values) == Compared(values[1], values[2])
    IN  Parsed([r \in 1..2 |-> [i \in 1..Len(Fields) |->
                   parse_resource_value(
                       Get(Get(IF r = 1 THEN current ELSE recommended,
                               Fields[i][1], <<>>), Fields[i][2], NA))]])

----------------------------------------------------------------------------
(* The recommendation engine: src/main.py.  A sample's float is a finite   *)
(* number, an infinity or NaN.                                             *)

Fin(v) == [k |-> "fin", v |-> v]
NaN == [k |-> "nan", v |-> Zero]
PosInf == [k |-> "inf", v |-> Zero]
NegInf == [k |-> "ninf", v |-> Zero]

\* float(v[1]) of a sample: the metrics source writes non-finite values as
\* "NaN", "+Inf" and "-Inf"
SampleFloat(s) ==
    IF s = <<"N", "a", "N">> THEN Return(NaN)
    ELSE IF s = <<"+", "I", "n", "f">> THEN Return(PosInf)
    ELSE IF s = <<"-", "I", "n", "f">> THEN Return(NegInf)
    ELSE LET Finite(x) == IF x.raised THEN [raised |-> TRUE, val |-> NaN]
                           ELSE Return(Fin(x.val))
         IN  Finite(ParseFloat(s))

XAdd(a, b) ==
    IF a.k = "nan" \/ b.k = "nan" THEN NaN
    ELSE IF a.k = "fin" /\ b.k = "fin" THEN Fin(Add(a.v, b.v))
    ELSE IF a.k = "fin" THEN b
    ELSE IF b.k = "fin" THEN a
    ELSE IF a.k = b.k THEN a
    ELSE NaN

\* a * q for a finite q
XMul(a, q) ==
    IF a.k = "nan" THEN NaN
    ELSE IF a.k = "fin" THEN Fin(Mul(a.v, q))
    ELSE IF Sign(q) = 0 THEN NaN
    ELSE IF (a.k = "inf") = (Sign(q) = 1) THEN PosInf
    ELSE NegInf

\* a < b: every comparison with NaN is false
XLess(a, b) ==
    IF a.k = "nan" \/ b.k = "nan" THEN FALSE
    ELSE IF a.k = "fin" /\ b.k = "fin" THEN Less(a.v, b.v)
    ELSE IF a.k = b.k THEN FALSE
    ELSE a.k = "ninf" \/ b.k = "inf"

XLeq(a, b) == a.k # "nan" /\ b.k # "nan" /\ ~XLess(b, a)

\* max(a, b): a unless b > a
XMax(a, b) == IF XLess(a, b) THEN b ELSE a

\* sum(values): 0 + values[0] + values[1] + ...
RECURSIVE SumTo(_, _)
SumTo(s, k) == IF k = 0 THEN Fin(Zero) ELSE XAdd(SumTo(s, k - 1), s[k])

XSum(s) == SumTo(s, Len(s))

\* sorted(values)[r - 1]: the value at rank r, equal values in input order.
\* A list that holds NaN has no order to speak of; it is left as it is, and
\* every use of one ends in the same exception whatever the order.
SortedAt(s, r) ==
    LET before(j, i) == XLess(s[j], s[i]) \/ (~XLess(s[i], s[j]) /\ j < i)
        rank(i) == Cardinality({j \in 1..Len(s) : before(j, i)})
    IN  IF \E i \in 1..Len(s) : s[i].k = "nan" THEN s[r]
        ELSE s[CHOOSE i \in 1..Len(s) : rank(i) = r - 1]

Sorted(s) == [r \in 1..Len(s) |-> SortedAt(s, r)]

\* the samples of all results of a query, as strings: result.get('values', [])
RECURSIVE Flatten(_)
Flatten(data) ==
    IF data = <<>> THEN <<>>
    ELSE Get(Head(data), "values", <<>>) \o Flatten(Tail(data))

Floats(strs) == [i \in 1..Len(strs) |-> SampleFloat(strs[i]).val]

ConversionRaises(strs) == \E i \in 1..Len(strs) : SampleFloat(strs[i]).raised

Mean(values) == XMul(XSum(values), Rat(1, Len(values)))

\* the nearest rank counted from one: sorted(values)[ceil(n * 0.95) - 1]
P95RankFromOne(values) ==
    IF Len(values) > 1
    THEN SortedAt(values, (Len(values) * 95 + 99) \div 100)
    ELSE values[1]

\* sorted(values)[int(len(values) * 0.95)]
P95(values) ==
    IF Len(values) > 1 THEN SortedAt(values, ((Len(values) * 95) \div 100) + 1)
    ELSE values[1]

\* a limit ratio of 2 in place of 1.5
DoubleRatio == Int2Num(2)

CpuFloor == Rat(1, 100)
MemFloor == Int2Num(16 * 1024 * 1024)
LimitRatio == Rat(3, 2)

Multiplier(buffer_percent) == Rat(100 + buffer_percent, 100)

\* max(mean * (1 + buffer_percent/100), floor); the mean of no values is floor
Request(values, buffer_percent, floor) ==
    XMax(XMul(IF values # <<>> THEN Mean(values) ELSE Fin(floor),
              Multiplier(buffer_percent)),
         Fin(floor))

\* the limit without the ratio to the request: p95 * (1 + buffer_percent/100)
LimitFromP95(values, buffer_percent, floor, request) ==
    XMul(IF values # <<>> THEN P95(values) ELSE Fin(floor),
         Multiplier(buffer_percent))

\* max(p95 * (1 + buffer_percent/100), request * 1.5); the p95 of no values
\* is floor
Limit(values, buffer_percent, floor, request) ==
    XMax(XMul(IF values # <<>> THEN P95(values) ELSE Fin(floor),
              Multiplier(buffer_percent)),
         XMul(request, LimitRatio))

\* the four quantities of lines 76-80, before formatting
Quantities(cpu_data, mem_data, buffer_percent) ==
    LET Sized(values, floor) ==
            LET Limited(request) ==
                    [request |-> request,
                     limit |-> Limit(values, buffer_percent, floor, request)]
            IN  Limited(Request(values, buffer_percent, floor))
        Named(cpu, mem) ==
            [cpu_request |-> cpu.request, cpu_limit |-> cpu.limit,
             mem_request |-> mem.request, mem_limit |-> mem.limit]
    IN  Named(Sized(Floats(Flatten(cpu_data)), CpuFloor),
              Sized(Floats(Flatten(mem_data)), MemFloor))

\* f"{int(x * 1000)}m" and f"{int(x / 1024 / 1024)}Mi"; int() of a
\* non-finite float raises
Milli(x) == IntToStr(Trunc(Mul(x.v, Int2Num(1000)))) \o <<"m">>
Mebi(x) == IntToStr(Trunc(Div(Div(x.v, Int2Num(1024)), Int2Num(1024))))
               \o <<"M", "i">>

NoRecommendation ==
    [requests |-> [cpu |-> <<>>, memory |-> <<>>],
     limits |-> [cpu |-> <<>>, memory |-> <<>>]]

calculate_recommendations(cpu_data, mem_data, buffer_percent) ==
    LET Formatted(q) ==
            IF \E x \in {q.cpu_request, q.cpu_limit,
                         q.mem_request, q.mem_limit} : x.k # "fin"
            THEN [raised |-> TRUE, val |-> NoRecommendation]
            ELSE [raised |-> FALSE,
                  val |-> [requests |-> [cpu |-> Milli(q.cpu_request),
                                         memory |-> Mebi(q.mem_request)],
                           limits |-> [cpu |-> Milli(q.cpu_limit),
                                       memory |-> Mebi(q.mem_limit)]]]
    IN  IF \/ ConversionRaises(Flatten(cpu_data))
           \/ ConversionRaises(Flatten(mem_data))
        THEN [raised |-> TRUE, val |-> NoRecommendation]
        ELSE Formatted(Quantities(cpu_data, mem_data, buffer_percent))

----------------------------------------------------------------------------
(* The renderers: src/main.py.  A rendered report is its sentinel string   *)
(* or the sequence of its rows (blocks); the table's and the page's two    *)
(* statistics columns are left out.                                        *)

\* code points order the characters: "-" < digits < upper case < lower case
CharOrder ==
    <<"-", "0", "1", "2", "3", "4", "5", "6", "7", "8", "9",
      "A", "B", "C", "D", "E", "F", "G", "H", "I", "J", "K", "L", "M",
      "N", "O", "P", "Q", "R", "S", "T", "U", "V", "W", "X", "Y", "Z",
      "a", "b", "c", "d", "e", "f", "g", "h", "i", "j", "k", "l", "m",
      "n", "o", "p", "q", "r", "s", "t", "u", "v", "w", "x", "y", "z">>

Ord(c) == CHOOSE i \in 1..Len(CharOrder) : CharOrder[i] = c

\* a < b for Python strings
RECURSIVE StrLess(_, _)
StrLess(a, b) ==
    IF b = <<>> THEN FALSE
    ELSE IF a = <<>> THEN TRUE
    ELSE IF Head(a) # Head(b) THEN Ord(Head(a)) < Ord(Head(b))
    ELSE StrLess(Tail(a), Tail(b))

\* tuples compared by the container name alone
KeyLessByName(a, b) == StrLess(a[2], b[2])

\* a < b for tuples (namespace, container name)
KeyLess(a, b) == StrLess(a[1], b[1]) \/ (a[1] = b[1] /\ StrLess(a[2], b[2]))

\* sorted(items, key=...): stable; keys[i] is the key of items[i]
SortedBy(items, keys) ==
    LET before(j, i) == \/ KeyLess(keys[j], keys[i])
                        \/ (~KeyLess(keys[i], keys[j]) /\ j < i)
        rank(i) == Cardinality({j \in 1..Len(items) : before(j, i)})
    IN  [r \in 1..Len(items) |->
            items[CHOOSE i \in 1..Len(items) : rank(i) = r - 1]]

\* the keys of a dict in insertion order
RECURSIVE Dedup(_)
Dedup(s) ==
    IF s = <<>> THEN <<>>
    ELSE LET r == Dedup(DropLast(s, 1))
             x == s[Len(s)]
         IN  IF \E i \in 1..Len(r) : r[i] = x THEN r ELSE Append(r, x)

\* one group per entry: entries of one name are not put together
ItemsPerEntry(entries) ==
    [i \in 1..Len(entries) |-> <<entries[i].container, <<entries[i]>>>>]

\* container_groups.items() of a defaultdict(list) filled in the order of
\* entries: (container name, its entries), names in first-seen order
Items(entries) ==
    LET names == Dedup([i \in 1..Len(entries) |-> entries[i].container])
        members(name) == LET named(e) == e.container = name
                         IN  SelectSeq(entries, named)
    IN  [i \in 1..Len(names) |-> <<names[i], members(names[i])>>]

\* for rec in recommendations: for container in rec["containers"]
RECURSIVE Containers(_)
Containers(recs) ==
    IF recs = <<>> THEN <<>>
    ELSE LET rec == Head(recs)
         IN  [i \in 1..Len(rec.containers) |->
                 [namespace |-> rec.namespace, pod |-> rec.pod,
                  container |-> rec.containers[i].container,
                  current |-> rec.containers[i].current,
                  recommended |-> rec.containers[i].recommended]]
             \o Containers(Tail(recs))

\* an exception leaves a renderer when a quantity of some entry does not parse
RenderRaises(recs) ==
    LET entries == Containers(recs)
    IN  \E i \in 1..Len(entries) :
            resources_are_same(entries[i].current, entries[i].recommended).raised

Rendered(rows) == [raised |-> FALSE, sentinel |-> "", rows |-> rows]
Sentinel(text) == [raised |-> FALSE, sentinel |-> text, rows |-> <<>>]
RenderRaise == [raised |-> TRUE, sentinel |-> "", rows |-> <<>>]

\* the empty string a report variable holds before its renderer has run
NotRendered == [raised |-> FALSE, sentinel |-> "", rows |-> <<>>]

\* ---- format_as_yaml

yaml_container_groups(recs) ==
    LET changed(e) == ~resources_are_same(e.current, e.recommended).val
        Grouped(kept) ==
            Items([i \in 1..Len(kept) |->
                      [namespace |-> kept[i].namespace,
                       container |-> kept[i].container,
                       current |-> kept[i].current,
                       recommended |-> kept[i].recommended]])
    IN  Grouped(SelectSeq(Containers(recs), changed))

yaml_key(x) == <<IF x[2] # <<>> THEN x[2][1].namespace ELSE <<>>, x[1]>>

\* the value of the member seen last in place of the maximum
yaml_last(containers, k, section, resource) ==
    IF k = 0 THEN Zero
    ELSE parse_resource_value(containers[k].recommended[section][resource]).val

RECURSIVE yaml_max(_, _, _, _)
yaml_max(containers, k, section, resource) ==
    IF k = 0 THEN Zero
    ELSE Max(yaml_max(containers, k - 1, section, resource),
             parse_resource_value(containers[k].recommended[section][resource]).val)

yaml_block(item) ==
    LET Block(quantity) ==
            [container |-> item[1],
             requests |-> [cpu |-> quantity[1], memory |-> quantity[2]],
             limits |-> [cpu |-> quantity[3], memory |-> quantity[4]]]
    IN  Block([i \in 1..Len(Fields) |->
                  format_resource_value(
                      yaml_max(item[2], Len(item[2]), Fields[i][1], Fields[i][2]),
                      Fields[i][2])])

format_as_yaml(recs) ==
    LET Blocks(sorted_containers) ==
            Rendered([i \in 1..Len(sorted_containers) |->
                         yaml_block(sorted_containers[i])])
        Report(container_groups) ==
            IF container_groups = <<>>
            THEN Sentinel("# No recommendations - all resources are already optimized.")
            ELSE Blocks(SortedBy(container_groups,
                          [i \in 1..Len(container_groups) |->
                              yaml_key(container_groups[i])]))
    IN  IF RenderRaises(recs) THEN RenderRaise
        ELSE Report(yaml_container_groups(recs))

\* ---- format_as_table

\* ((recommended - current) / current) * 100
DiffPercent(current, recommended) ==
    Mul(Div(Sub(recommended, current), current), Int2Num(100))

\* the colour put on a recommended value; "plain" when colours are off
_colorize_recommendation(current_val, recommended_val, use_colors) ==
    LET cell(colour) == [raised |-> FALSE,
                         val |-> [text |-> recommended_val, colour |-> colour]]
        Graded(diff_percent) ==
            IF Less(Int2Num(50), diff_percent) THEN cell("bright green")
            ELSE IF Less(Int2Num(20), diff_percent) THEN cell("green")
            ELSE IF Less(diff_percent, Int2Num(-50)) THEN cell("bright blue")
            ELSE IF Less(diff_percent, Int2Num(-20)) THEN cell("blue")
            ELSE cell("cyan")
        Compared(current, recommended) ==
            IF current.raised \/ recommended.raised
            THEN [raised |-> TRUE,
                  val |-> [text |-> recommended_val, colour |-> "plain"]]
            ELSE IF current.val = Zero \/ current_val = NA
            THEN cell("bright green")
            ELSE Graded(DiffPercent(current.val, recommended.val))
    IN  IF ~use_colors THEN cell("plain")
        ELSE Compared(parse_resource_value(current_val),
                      parse_resource_value(recommended_val))

\* the groups of all entries, equal ones included
table_groups_unfiltered(recs) == Items(Containers(recs))

table_container_groups(recs) ==
    LET changed(e) == ~resources_are_same(e.current, e.recommended).val
    IN  Items(SelectSeq(Containers(recs), changed))

table_key(x) == <<IF x[2] # <<>> THEN x[2][1].namespace ELSE <<>>, x[1]>>

RECURSIVE table_max(_, _, _, _)
table_max(containers, k, section, resource) ==
    IF k = 0 THEN Zero
    ELSE Max(table_max(containers, k - 1, section, resource),
             parse_resource_value(containers[k].recommended[section][resource]).val)

\* what a recommended limit is compared with when no current limit is set
NoLimit == [cpu |-> <<"0", "m">>, memory |-> <<"0", "M", "i">>]

table_row(item, use_colors) ==
    LET Row(current, rec) ==
            [namespace |-> item[2][1].namespace,
             pod |-> item[2][1].pod,
             container |-> item[1],
             current_cpu_req |-> current[1], rec_cpu_req |-> rec[1],
             current_cpu_lim |-> current[3], rec_cpu_lim |-> rec[3],
             current_mem_req |-> current[2], rec_mem_req |-> rec[2],
             current_mem_lim |-> current[4], rec_mem_lim |-> rec[4]]
        Coloured(current, recommended) ==
            Row(current,
                [i \in 1..Len(Fields) |->
                    _colorize_recommendation(
                        IF Fields[i][1] = "limits" /\ current[i] = NA
                        THEN NoLimit[Fields[i][2]] ELSE current[i],
                        recommended[i], use_colors).val])
    IN  Coloured([i \in 1..Len(Fields) |->
                     Get(Get(item[2][1].current, Fields[i][1], <<>>),
                         Fields[i][2], NA)],
                 [i \in 1..Len(Fields) |->
                     format_resource_value(
                         table_max(item[2], Len(item[2]),
                                   Fields[i][1], Fields[i][2]),
                         Fields[i][2])])

format_as_table(recs, use_colors) ==
    LET Rows(sorted_containers) ==
            Rendered([i \in 1..Len(sorted_containers) |->
                         table_row(sorted_containers[i], use_colors)])
        Report(container_groups) ==
            IF container_groups = <<>>
            THEN Sentinel("No recommendations - all resources are already optimized.")
            ELSE Rows(SortedBy(container_groups,
                          [i \in 1..Len(container_groups) |->
                              table_key(container_groups[i])]))
    IN  IF RenderRaises(recs) THEN RenderRaise
        ELSE Report(table_container_groups(recs))

\* ---- format_as_html_table

_get_html_class(current_val, recommended_val) ==
    LET cell(class) == [raised |-> FALSE,
                        val |-> [text |-> recommended_val, class |-> class]]
        Graded(diff_percent) ==
            IF Less(Int2Num(20), diff_percent) THEN cell("increase")
            ELSE IF Less(diff_percent, Int2Num(-20)) THEN cell("decrease")
            ELSE cell("minor")
        Compared(current, recommended) ==
            IF current.raised \/ recommended.raised
            THEN [raised |-> TRUE,
                  val |-> [text |-> recommended_val, class |-> "none"]]
            ELSE IF current.val = Zero \/ current_val = NA THEN cell("new")
            ELSE Graded(DiffPercent(current.val, recommended.val))
    IN  Compared(parse_resource_value(current_val),
                 parse_resource_value(recommended_val))

html_container_groups(recs) ==
    LET changed(e) == ~resources_are_same(e.current, e.recommended).val
    IN  Items(SelectSeq(Containers(recs), changed))

html_key(x) == <<IF x[2] # <<>> THEN x[2][1].namespace ELSE <<>>, x[1]>>

\* the value of the member seen first in place of the maximum
html_first(containers, k, section, resource) ==
    IF k = 0 THEN Zero
    ELSE parse_resource_value(containers[1].recommended[section][resource]).val

RECURSIVE html_max(_, _, _, _)
html_max(containers, k, section, resource) ==
    IF k = 0 THEN Zero
    ELSE Max(html_max(containers, k - 1, section, resource),
             parse_resource_value(containers[k].recommended[section][resource]).val)

html_row(item) ==
    LET Row(current, rec) ==
            [namespace |-> item[2][1].namespace,
             pod |-> item[2][1].pod,
             container |-> item[1],
             current_cpu_req |-> current[1], rec_cpu_req |-> rec[1],
             current_cpu_lim |-> current[3], rec_cpu_lim |-> rec[3],
             current_mem_req |-> current[2], rec_mem_req |-> rec[2],
             current_mem_lim |-> current[4], rec_mem_lim |-> rec[4]]
        Classed(current, recommended) ==
            Row(current,
                [i \in 1..Len(Fields) |->
                    _get_html_class(
                        IF Fields[i][1] = "limits" /\ current[i] = NA
                        THEN NoLimit[Fields[i][2]] ELSE current[i],
                        recommended[i]).val])
    IN  Classed([i \in 1..Len(Fields) |->
                    Get(Get(item[2][1].current, Fields[i][1], <<>>),
                        Fields[i][2], NA)],
                [i \in 1..Len(Fields) |->
                    format_resource_value(
                        html_max(item[2], Len(item[2]),
                                 Fields[i][1], Fields[i][2]),
                        Fields[i][2])])

format_as_html_table(recs) ==
    LET Rows(sorted_containers) ==
            Rendered([i \in 1..Len(sorted_containers) |->
                         html_row(sorted_containers[i])])
        Report(container_groups) ==
            IF container_groups = <<>>
            THEN Sentinel("<p>No recommendations - all resources are already optimized.</p>")
            ELSE Rows(SortedBy(container_groups,
                          [i \in 1..Len(container_groups) |->
                              html_key(container_groups[i])]))
    IN  IF RenderRaises(recs) THEN RenderRaise
        ELSE Report(html_container_groups(recs))

----------------------------------------------------------------------------
(* The strings given to parse_resource_value.                              *)

MaxStrLen == 3

Alphabet == {"0", "1", "2", ".", "-", " ", "m", "n", "M", "G", "i", "x"}

RECURSIVE SeqsUpTo(_, _)
SeqsUpTo(S, k) ==
    IF k = 0 THEN {<<>>}
    ELSE LET shorter == SeqsUpTo(S, k - 1)
         IN  shorter \cup {Append(s, c) : s \in shorter, c \in S}

NamedStrings ==
    { NA,
      <<"g", "a", "r", "b", "a", "g", "e">>,
      <<"r", "a", "n", "d", "o", "m">>,
      <<"5", "0", "0", "m">>,
      <<"2", "5", "0", "n">>,
      <<"1", "2", "8", "M", "i">>,
      <<" ", "1", ".", "5", "G", "i", " ">>,
      <<"5", "1", "2", "K", "i">> }

Strings == SeqsUpTo(Alphabet, MaxStrLen) \cup NamedStrings

Idle == <<>>

InitParse ==
    /\ pc = "parse"
    /\ pin \in Strings
    /\ pout = Idle
    /\ cin = Idle /\ cout = Idle
    /\ recommendations = <<>>
    /\ table_output = NotRendered /\ html_table_output = NotRendered
    /\ yaml_output = NotRendered
    /\ env = Idle /\ pods = <<>> /\ idx = 0 /\ log = <<>>
    /\ file = Idle /\ slack = Idle

\* one call parse_resource_value(pin)
Parse ==
    /\ pc = "parse"
    /\ pout' = parse_resource_value(pin)
    /\ pc' = "parsed"
    /\ UNCHANGED <<pin, cin, cout, recommendations, table_output,
                   html_table_output, yaml_output, env, pods, idx, log, file,
                   slack>>

NextParse == Parse

SpecParse == InitParse /\ [][NextParse]_vars

Garbage == <<"g", "a", "r", "b", "a", "g", "e">>
Random == <<"r", "a", "n", "d", "o", "m">>

\* C3: parse_resource_value never fails with an exception: for every input
\* string it returns a number, and it returns 0.0 for "N/A", for the empty
\* string and for the unparseable "garbage".
C3_NeverRaises ==
    pc = "parsed" =>
        /\ ~pout.raised
        /\ pin \in {NA, <<>>, Garbage} => pout.val = Zero

\* "random" ends in the suffix m and its prefix "rando" is no number: the call
\* ends in the ValueError of float("rando")
C3_SuffixRaises == pc = "parsed" /\ pin = Random /\ pout.raised

\* what does hold: the call returns 0.0 for "N/A", "" and "garbage", and it
\* raises only on a string that ends in one of the six suffixes
C3_RaisesOnlyOnSuffix ==
    pc = "parsed" =>
        /\ pin \in {NA, <<>>, Garbage} => ~pout.raised /\ pout.val = Zero
        /\ pout.raised =>
              \E suffix \in {<<"m">>, <<"n">>, <<"M", "i">>, <<"G", "i">>,
                             <<"M">>, <<"G">>} : EndsWith(Strip(pin), suffix)

\* the suffix table as the documentation of the codec states it
SuffixTable ==
    { [suffix |-> <<"m">>,      factor |-> Rat(1, 1000)],
      [suffix |-> <<"n">>,      factor |-> Rat(1, 1000000000)],
      [suffix |-> <<"M", "i">>, factor |-> Int2Num(1024 * 1024)],
      [suffix |-> <<"G", "i">>, factor |-> Int2Num(1024 * 1024 * 1024)],
      [suffix |-> <<"M">>,      factor |-> Int2Num(1000000)],
      [suffix |-> <<"G">>,      factor |-> Int2Num(1000000000)] }

\* C11: parse_resource_value applies the suffix table m, n, Mi, Gi, M, G,
\* none: a number N followed by a suffix of the table parses to N times the
\* factor of that suffix (N/1000, N/1e9, N*1024^2, N*1024^3, N*1e6, N*1e9),
\* a bare number N to N, so that "m" is taken neither for "M" nor for "Mi";
\* "500m" is 0.5, "2Gi" is 2*1024^3, "1G" is 1e9 and "250n" is 2.5e-7; and
\* the whitespace around a string does not change its result.
C11_SuffixTable ==
    pc = "parsed" =>
        /\ \A row \in SuffixTable :
              ( /\ EndsWith(Strip(pin), row.suffix)
                /\ ~ParseFloat(DropLast(Strip(pin), Len(row.suffix))).raised )
              => pout = Return(Mul(ParseFloat(DropLast(Strip(pin),
                                                       Len(row.suffix))).val,
                                   row.factor))
        /\ (Strip(pin) # <<>> /\ ~ParseFloat(Strip(pin)).raised)
              => pout = ParseFloat(Strip(pin))
        /\ pin = <<"5", "0", "0", "m">> => pout = Return(Rat(1, 2))
        /\ pin = <<"2", "G", "i">> => pout = Return(Mul(Int2Num(2), Int2Num(1024 * 1024 * 1024)))
        /\ pin = <<"1", "G">> => pout = Return(Int2Num(1000000000))
        /\ pin = <<"2", "5", "0", "n">> => pout = Return(Rat(1, 4000000))
        /\ pout = parse_resource_value(Strip(pin))

\* " 1M" between blanks is a million bytes: neither a thousandth (m) nor
\* 1024 * 1024 (Mi)
C11_MegaNotMilli ==
    /\ pc = "parsed"
    /\ pin = <<" ", "1", "M">>
    /\ pout = Return(Int2Num(1000000))
    /\ pout # Return(Rat(1, 1000))
    /\ pout # Return(Int2Num(1024 * 1024))

----------------------------------------------------------------------------
(* The inputs given to calculate_recommendations.                          *)

MaxSamples == 2

CpuSamples == { <<"0", ".", "0", "0", "4">>, <<"0", ".", "1">>, <<"2">> }

\* 0, 8 MiB and 64 MiB in bytes
MemSamples == { <<"0">>, <<"8", "3", "8", "8", "6", "0", "8">>,
                <<"6", "7", "1", "0", "8", "8", "6", "4">> }

NonFinite == { <<"N", "a", "N">>, <<"+", "I", "n", "f">>, <<"-", "I", "n", "f">> }

\* k copies of x
Repeat(x, k) == [i \in 1..k |-> x]

\* one result holding the series, as query_range returns it
OneResult(series) == << [values |-> series] >>

\* data shaped otherwise: a result without 'values', a series split over two
\* results, and 19 + 2 samples (the shortest list whose p95 is not its maximum)
CpuShapes ==
    { << [metric |-> <<"u", "p">>] >>,
      << [values |-> << <<"0", ".", "1">> >>], [values |-> << <<"2">> >>] >>,
      OneResult(Repeat(<<"0", ".", "1">>, 19) \o << <<"0", ".", "5">>, <<"2">> >>) }

CpuData ==
    {OneResult(s) : s \in SeqsUpTo(CpuSamples, MaxSamples)}
        \cup {OneResult(<<x>>) : x \in NonFinite \cup {<<"x">>}}
        \cup {OneResult(<< <<"0", ".", "1">>, x >>) : x \in NonFinite}
        \cup CpuShapes \cup {<<>>}

MemData ==
    {OneResult(s) : s \in SeqsUpTo(MemSamples, MaxSamples)}
        \cup {OneResult(<<x>>) : x \in NonFinite \cup {<<"x">>}}
        \cup {OneResult(<< <<"1", "0", "0", "0", "0", "0", "0", "0", "0">> >>), <<>>}

\* buffer_percent: 0..100 by its description, and not validated
Buffers == {-100, 0, 1, 20, 40, 50, 99, 100}

InitCalc ==
    /\ pc = "calculate"
    /\ cin \in [cpu_data : CpuData, mem_data : MemData, buffer_percent : Buffers]
    /\ cout = Idle
    /\ pin = Idle /\ pout = Idle
    /\ recommendations = <<>>
    /\ table_output = NotRendered /\ html_table_output = NotRendered
    /\ yaml_output = NotRendered
    /\ env = Idle /\ pods = <<>> /\ idx = 0 /\ log = <<>>
    /\ file = Idle /\ slack = Idle

\* one call calculate_recommendations(cpu_data, mem_data, buffer_percent)
Calculate ==
    /\ pc = "calculate"
    /\ cout' = calculate_recommendations(cin.cpu_data, cin.mem_data,
                                         cin.buffer_percent)
    /\ pc' = "calculated"
    /\ UNCHANGED <<pin, pout, cin, recommendations, table_output,
                   html_table_output, yaml_output, env, pods, idx, log, file,
                   slack>>

NextCalc == Calculate

SpecCalc == InitCalc /\ [][NextCalc]_vars

\* the samples of a series, each one a number, an infinity or NaN
IsFloatList(data) == ~ConversionRaises(Flatten(data))
AllFinite(data) ==
    \A i \in 1..Len(Flatten(data)) : SampleFloat(Flatten(data)[i]).val.k = "fin"

\* cpu_request >= 0.01, cpu_limit >= 1.5 * cpu_request, mem_request >= 16 MiB
\* and mem_limit >= 1.5 * mem_request
FloorsAndRatios(q) ==
    /\ XLeq(Fin(Rat(1, 100)), q.cpu_request)
    /\ XLeq(XMul(q.cpu_request, Rat(3, 2)), q.cpu_limit)
    /\ XLeq(Fin(Int2Num(16777216)), q.mem_request)
    /\ XLeq(XMul(q.mem_request, Rat(3, 2)), q.mem_limit)

\* C2: for every non-empty CPU sample list, every non-empty memory sample
\* list and every buffer_percent in 0..100, calculate_recommendations
\* computes cpu_request >= 0.01 core, cpu_limit >= 1.5 * cpu_request,
\* mem_request >= 16 MiB and mem_limit >= 1.5 * mem_request.
C2_FloorsAndRatios ==
    ( /\ pc = "calculated"
      /\ cin.buffer_percent \in 0..100
      /\ Flatten(cin.cpu_data) # <<>> /\ IsFloatList(cin.cpu_data)
      /\ Flatten(cin.mem_data) # <<>> /\ IsFloatList(cin.mem_data) )
    => FloorsAndRatios(Quantities(cin.cpu_data, cin.mem_data, cin.buffer_percent))

\* a CPU sample list holding NaN: max(nan, 0.01) is nan, no floor is applied,
\* and the call ends in the exception of int(nan)
C2_NaNSample ==
    /\ pc = "calculated"
    /\ cin.buffer_percent = 20
    /\ cin.cpu_data = OneResult(<< <<"N", "a", "N">> >>)
    /\ cin.mem_data = OneResult(<< <<"6", "7", "1", "0", "8", "8", "6", "4">> >>)
    /\ Quantities(cin.cpu_data, cin.mem_data, cin.buffer_percent).cpu_request = NaN
    /\ cout.raised

\* what does hold: the four bounds for lists of finite samples
C2_FloorsAndRatiosFinite ==
    ( /\ pc = "calculated"
      /\ cin.buffer_percent \in 0..100
      /\ Flatten(cin.cpu_data) # <<>> /\ IsFloatList(cin.cpu_data)
      /\ Flatten(cin.mem_data) # <<>> /\ IsFloatList(cin.mem_data)
      /\ AllFinite(cin.cpu_data) /\ AllFinite(cin.mem_data) )
    => /\ FloorsAndRatios(Quantities(cin.cpu_data, cin.mem_data,
                                     cin.buffer_percent))
       /\ ~cout.raised

\* C9: calculate_recommendations has no error outcome: for any input series
\* (empty, without 'values', a single sample, non-finite or non-numeric
\* samples) and any buffer_percent it returns a recommendation whose four
\* request and limit quantities are non-zero.
C9_NoErrorOutcome ==
    pc = "calculated" =>
        /\ ~cout.raised
        /\ cout.val.requests.cpu # <<"0", "m">>
        /\ cout.val.limits.cpu # <<"0", "m">>
        /\ cout.val.requests.memory # <<"0", "M", "i">>
        /\ cout.val.limits.memory # <<"0", "M", "i">>

\* a single CPU sample "NaN" with well-formed memory samples: the call raises
C9_NaNRaises ==
    /\ pc = "calculated"
    /\ cin.cpu_data = OneResult(<< <<"N", "a", "N">> >>)
    /\ cin.mem_data = OneResult(<< <<"8", "3", "8", "8", "6", "0", "8">> >>)
    /\ cin.buffer_percent = 0
    /\ cout.raised

\* what does hold: with buffer_percent >= 0 a call over finite samples
\* returns, and returns non-zero quantities
C9_FiniteSamplesReturn ==
    ( /\ pc = "calculated"
      /\ cin.buffer_percent >= 0
      /\ IsFloatList(cin.cpu_data) /\ AllFinite(cin.cpu_data)
      /\ IsFloatList(cin.mem_data) /\ AllFinite(cin.mem_data) )
    => C9_NoErrorOutcome

\* C10: with buffer_percent = 0 an empty CPU series makes the call return
\* requests.cpu "10m" and limits.cpu "15m", and an empty memory series makes
\* it return requests.memory "16Mi" and limits.memory "24Mi"; with an empty
\* series the call fails to return only over a sample of the other series.
C10_EmptySeriesFloors ==
    (pc = "calculated" /\ cin.buffer_percent = 0) =>
        /\ Flatten(cin.cpu_data) = <<>> =>
              IF cout.raised
              THEN ~(IsFloatList(cin.mem_data) /\ AllFinite(cin.mem_data))
              ELSE /\ cout.val.requests.cpu = <<"1", "0", "m">>
                   /\ cout.val.limits.cpu = <<"1", "5", "m">>
        /\ Flatten(cin.mem_data) = <<>> =>
              IF cout.raised
              THEN ~(IsFloatList(cin.cpu_data) /\ AllFinite(cin.cpu_data))
              ELSE /\ cout.val.requests.memory = <<"1", "6", "M", "i">>
                   /\ cout.val.limits.memory = <<"2", "4", "M", "i">>

\* no series at all and no buffer: the four floors are returned
C10_BothSeriesEmpty ==
    /\ pc = "calculated"
    /\ cin.buffer_percent = 0
    /\ cin.cpu_data = <<>> /\ cin.mem_data = <<>>
    /\ cout = Return([requests |-> [cpu |-> <<"1", "0", "m">>,
                                    memory |-> <<"1", "6", "M", "i">>],
                      limits |-> [cpu |-> <<"1", "5", "m">>,
                                  memory |-> <<"2", "4", "M", "i">>]])

----------------------------------------------------------------------------
(* The lists of pod analyses given to the renderers.                       *)

MaxPods == 2

Namespaces == { <<"a">>, <<"b">> }

App == <<"a", "p", "p">>
Web == <<"w", "e", "b">>
Db == <<"d", "b">>

PodName(i) == <<"p", Digits[i + 1]>>

Resources(cpu_req, mem_req, cpu_lim, mem_lim) ==
    [requests |-> [cpu |-> cpu_req, memory |-> mem_req],
     limits |-> [cpu |-> cpu_lim, memory |-> mem_lim]]

\* current resources as analyze_pod builds them
Unset == [requests |-> <<>>, limits |-> <<>>]
CurSet == Resources(<<"1", "0", "0", "m">>, <<"1", "2", "8", "M", "i">>,
                    <<"2", "0", "0", "m">>, <<"2", "5", "6", "M", "i">>)
\* the same quantities written in cores and bytes
CurPlain == Resources(<<"0", ".", "1">>,
                      <<"1", "3", "4", "2", "1", "7", "7", "2", "8">>,
                      <<"0", ".", "2">>, <<"2", "5", "6", "M", "i">>)
CurNoLimits == [requests |-> [cpu |-> <<"1", "0", "0", "m">>,
                              memory |-> <<"1", "2", "8", "M", "i">>],
                limits |-> <<>>]

RecSame == Resources(<<"1", "0", "0", "m">>, <<"1", "2", "8", "M", "i">>,
                     <<"2", "0", "0", "m">>, <<"2", "5", "6", "M", "i">>)
RecCpu == Resources(<<"5", "0", "0", "m">>, <<"6", "4", "M", "i">>,
                    <<"7", "5", "0", "m">>, <<"9", "6", "M", "i">>)
RecMem == Resources(<<"2", "5", "0", "m">>, <<"5", "1", "2", "M", "i">>,
                    <<"3", "7", "5", "m">>, <<"7", "6", "8", "M", "i">>)
RecFloor == Resources(<<"1", "0", "m">>, <<"1", "6", "M", "i">>,
                      <<"1", "5", "m">>, <<"2", "4", "M", "i">>)

Container(name, current, recommended) ==
    [container |-> name, current |-> current, recommended |-> recommended]

\* the containers of one pod
ContainerLists ==
    { << Container(App, CurSet, RecCpu) >>,
      << Container(App, CurNoLimits, RecMem) >>,
      << Container(App, CurPlain, RecSame) >>,
      << Container(Web, CurSet, RecSame), Container(App, Unset, RecFloor),
         Container(Db, Unset, RecFloor) >> }

\* the lists of k pod analyses, the i-th pod named p<i>
RECURSIVE PodLists(_)
PodLists(k) ==
    IF k = 0 THEN {<<>>}
    ELSE {Append(l, [pod |-> PodName(k), namespace |-> ns, containers |-> cs]) :
              l \in PodLists(k - 1), ns \in Namespaces, cs \in ContainerLists}

Recommendations == UNION {PodLists(k) : k \in 0..MaxPods}

InitRender ==
    /\ pc = "format_as_table"
    /\ recommendations \in Recommendations
    /\ env \in [use_colors : BOOLEAN]
    /\ table_output = NotRendered /\ html_table_output = NotRendered
    /\ yaml_output = NotRendered
    /\ pin = Idle /\ pout = Idle /\ cin = Idle /\ cout = Idle
    /\ pods = <<>> /\ idx = 0 /\ log = <<>>
    /\ file = Idle /\ slack = Idle

RenderTable ==
    /\ pc = "format_as_table"
    /\ table_output' = format_as_table(recommendations, env.use_colors)
    /\ pc' = "format_as_html_table"
    /\ UNCHANGED <<pin, pout, cin, cout, recommendations, html_table_output,
                   yaml_output, env, pods, idx, log, file, slack>>

RenderHtml ==
    /\ pc = "format_as_html_table"
    /\ html_table_output' = format_as_html_table(recommendations)
    /\ pc' = "format_as_yaml"
    /\ UNCHANGED <<pin, pout, cin, cout, recommendations, table_output,
                   yaml_output, env, pods, idx, log, file, slack>>

RenderYaml ==
    /\ pc = "format_as_yaml"
    /\ yaml_output' = format_as_yaml(recommendations)
    /\ pc' = "rendered"
    /\ UNCHANGED <<pin, pout, cin, cout, recommendations, table_output,
                   html_table_output, env, pods, idx, log, file, slack>>

NextRender == RenderTable \/ RenderHtml \/ RenderYaml

SpecRender == InitRender /\ [][NextRender]_vars

\* ---- the reports read back

\* an entry whose current resources differ from its recommended resources
Changed(e) == ~resources_are_same(e.current, e.recommended).val

\* the entries of the list that differ, in input order
Survivors(recs) == SelectSeq(Containers(recs), Changed)

\* the container names of a sequence of entries
Names(kept) == {kept[i].container : i \in 1..Len(kept)}

\* the members of the group of a container name
Members(kept, name) ==
    {kept[i] : i \in {j \in 1..Len(kept) : kept[j].container = name}}

\* the first entry of a container name, in the order of the sequence
FirstSeen(kept, name) ==
    kept[CHOOSE i \in 1..Len(kept) :
            /\ kept[i].container = name
            /\ \A j \in 1..(i - 1) : kept[j].container # name]

\* the list with every entry that does not differ taken out of its pod
WithoutEqual(recs) ==
    [i \in 1..Len(recs) |->
        [recs[i] EXCEPT !.containers =
            LET differs(c) == ~resources_are_same(c.current, c.recommended).val
            IN  SelectSeq(@, differs)]]

\* the greatest number of a non-empty set
Greatest(S) == CHOOSE x \in S : \A y \in S : Leq(y, x)

\* the greatest parsed recommended quantity among the members of a group
GroupMaximum(kept, name, section, resource) ==
    Greatest({parse_resource_value(e.recommended[section][resource]).val :
                  e \in Members(kept, name)})

\* container name and the four recommended strings of each row or block
TableQuantities(out) ==
    [i \in 1..Len(out.rows) |->
        [container |-> out.rows[i].container,
         cpu_req |-> out.rows[i].rec_cpu_req.text,
         mem_req |-> out.rows[i].rec_mem_req.text,
         cpu_lim |-> out.rows[i].rec_cpu_lim.text,
         mem_lim |-> out.rows[i].rec_mem_lim.text]]

YamlQuantities(out) ==
    [i \in 1..Len(out.rows) |->
        [container |-> out.rows[i].container,
         cpu_req |-> out.rows[i].requests.cpu,
         mem_req |-> out.rows[i].requests.memory,
         cpu_lim |-> out.rows[i].limits.cpu,
         mem_lim |-> out.rows[i].limits.memory]]

NoRecommendationsTable ==
    Sentinel("No recommendations - all resources are already optimized.")
NoRecommendationsHtml ==
    Sentinel("<p>No recommendations - all resources are already optimized.</p>")
NoRecommendationsYaml ==
    Sentinel("# No recommendations - all resources are already optimized.")

AllRendered ==
    /\ pc = "rendered"
    /\ ~table_output.raised /\ ~html_table_output.raised /\ ~yaml_output.raised

\* C1: an entry whose current resources equal its recommended resources
\* appears in none of the three reports: every row carries the name of an
\* entry that differs, each report is the report of the list without the
\* equal entries, and when no entry differs (or the list is empty) each
\* renderer returns its own 'No recommendations' string and nothing else.
C1_EqualEntriesNeverRendered ==
    pc = "rendered" =>
        /\ AllRendered
        /\ LET names == Names(Survivors(recommendations))
           IN  /\ \A out \in {table_output, html_table_output, yaml_output} :
                     /\ \A i \in 1..Len(out.rows) :
                           out.rows[i].container \in names
                     /\ (out.sentinel = "") = (names # {})
                     /\ (out.rows = <<>>) = (names = {})
               /\ names = {} =>
                     /\ table_output = NoRecommendationsTable
                     /\ html_table_output = NoRecommendationsHtml
                     /\ yaml_output = NoRecommendationsYaml
        /\ table_output =
              format_as_table(WithoutEqual(recommendations), env.use_colors)
        /\ html_table_output =
              format_as_html_table(WithoutEqual(recommendations))
        /\ yaml_output = format_as_yaml(WithoutEqual(recommendations))

\* a container name with an equal entry in one pod and an entry that differs
\* in another: the reports hold one row, made of the second alone
C1_EqualBesideChanged ==
    /\ AllRendered
    /\ Len(recommendations) = 2
    /\ recommendations[1].containers = << Container(App, CurPlain, RecSame) >>
    /\ recommendations[2].containers = << Container(App, CurSet, RecCpu) >>
    /\ Len(table_output.rows) = 1
    /\ table_output.rows[1].pod = recommendations[2].pod
    /\ Len(html_table_output.rows) = 1 /\ Len(yaml_output.rows) = 1

C5_OneGroupPerName ==
    pc = "rendered" =>
        LET kept == Survivors(recommendations)
        IN  /\ \A out \in {table_output, html_table_output, yaml_output} :
                  /\ {out.rows[i].container : i \in 1..Len(out.rows)} = Names(kept)
                  /\ Len(out.rows) = Cardinality(Names(kept))
            /\ \A out \in {table_output, html_table_output} :
                  \A i \in 1..Len(out.rows) :
                     LET first == FirstSeen(kept, out.rows[i].container)
                     IN  /\ out.rows[i].namespace = first.namespace
                         /\ out.rows[i].pod = first.pod

\* two surviving entries named app, the first in namespace b and the second
\* in namespace a: one row, shown under namespace b and the first pod
C5_OneRowForTwoNamespaces ==
    /\ AllRendered
    /\ Len(recommendations) = 2
    /\ recommendations[1].namespace = <<"b">>
    /\ recommendations[2].namespace = <<"a">>
    /\ recommendations[1].containers = << Container(App, CurNoLimits, RecMem) >>
    /\ recommendations[2].containers = << Container(App, CurSet, RecCpu) >>
    /\ Len(table_output.rows) = 1
    /\ table_output.rows[1].namespace = <<"b">>
    /\ table_output.rows[1].pod = PodName(1)
    /\ Len(html_table_output.rows) = 1 /\ Len(yaml_output.rows) = 1

\* C6: given the same list, format_as_yaml, format_as_table and
\* format_as_html_table agree: the same groups in the same order, for every
\* group the same four recommended quantity strings, and the 'No
\* recommendations' string from all three or from none.
C6_RenderersAgree ==
    pc = "rendered" =>
        /\ TableQuantities(table_output) = YamlQuantities(yaml_output)
        /\ TableQuantities(html_table_output) = YamlQuantities(yaml_output)
        /\ (table_output.sentinel = "") = (yaml_output.sentinel = "")
        /\ (html_table_output.sentinel = "") = (yaml_output.sentinel = "")

\* two groups, one of them with two members whose recommendations differ
C6_TwoGroupsAgree ==
    /\ AllRendered
    /\ Len(recommendations) = 2
    /\ recommendations[1].containers = << Container(App, CurSet, RecCpu) >>
    /\ recommendations[2].containers =
          << Container(Web, CurSet, RecSame), Container(App, Unset, RecFloor),
             Container(Db, Unset, RecFloor) >>
    /\ Len(yaml_output.rows) = 2
    /\ TableQuantities(table_output) = YamlQuantities(yaml_output)
    /\ TableQuantities(html_table_output) = YamlQuantities(yaml_output)

----------------------------------------------------------------------------
(* The cluster and the metrics source of a run of main.                    *)

NsA == <<"a">>
NsB == <<"b">>
NsK == <<"k">>

\* v1.list_namespace().items, in the order the cluster returns them
ClusterNamespaces == <<NsA, NsB, NsK>>

\* container.resources of the three kinds of pod: requests and limits equal
\* to the recommendation for the samples below, nothing set, and a CPU
\* request alone
SpecSet == [requests |-> [cpu |-> <<"1", "2", "0", "m">>,
                          memory |-> <<"7", "6", "M", "i">>],
            limits |-> [cpu |-> <<"1", "8", "0", "m">>,
                        memory |-> <<"1", "1", "5", "M", "i">>]]
SpecUnset == [requests |-> <<>>, limits |-> <<>>]
SpecCpuOnly == [requests |-> [cpu |-> <<"1", "0", "m">>], limits |-> <<>>]

\* pods p1, p2, ... placed in namespaces a, k, b, a, ...; pod 2 runs two
\* containers
ClusterPod(i) ==
    [name |-> PodName(i),
     namespace |-> <<NsA, NsK, NsB>>[((i - 1) % 3) + 1],
     phase |-> "Running",
     containers |->
        <<  << [name |-> App, resources |-> SpecSet] >>,
            << [name |-> Web, resources |-> SpecUnset],
               [name |-> App, resources |-> SpecCpuOnly] >>,
            << [name |-> Db, resources |-> SpecCpuOnly] >>  >>[((i - 1) % 3) + 1]]

\* the pods of the cluster: one that is not running, then p1 .. pMaxPods
ClusterPods ==
    << [ClusterPod(1) EXCEPT !.name = PodName(0), !.phase = "Pending"] >>
        \o [i \in 1..MaxPods |-> ClusterPod(i)]

\* what a range query may come back with
CpuResults == { OneResult(<< <<"0", ".", "1">> >>),
                OneResult(<< <<"N", "a", "N">> >>) }
MemResults == { OneResult(<< <<"6", "7", "1", "0", "8", "8", "6", "4">> >>) }

\* a request to the metrics source: it raises, or it answers
QueryOutcomes(results) ==
    {[ok |-> FALSE, result |-> <<>>]} \cup {[ok |-> TRUE, result |-> r] : r \in results}

\* a line written to standard output
Event(event, namespace, pod, detail) ==
    [event |-> event, namespace |-> namespace, pod |-> pod, detail |-> detail]

\* the traceback of an exception that leaves main
Traceback(namespace, pod, function) == Event("Traceback", namespace, pod, function)

----------------------------------------------------------------------------
(* src/services/prometheus.py and src/services/kubernetes.py.              *)

\* a query whose exception reaches the caller
query_raises(query, outcome) ==
    [raised |-> ~outcome.ok, val |-> outcome.result, log |-> <<>>]

\* a query that raises is reported and answered with []
query_prometheus(query, outcome) ==
    IF outcome.ok THEN [raised |-> FALSE, val |-> outcome.result, log |-> <<>>]
    ELSE [raised |-> FALSE, val |-> <<>>,
          log |-> << Event("Error querying Prometheus", query[3], query[2],
                           query[1]) >>]

\* outcomes: the outcomes of the CPU query and of the memory query
get_container_metrics(container_name, pod_name, namespace, outcomes) ==
    LET Data(cpu, mem) ==
            [raised |-> cpu.raised \/ mem.raised,
             cpu_data |-> cpu.val, mem_data |-> mem.val,
             log |-> IF cpu.raised THEN cpu.log ELSE cpu.log \o mem.log]
    IN  Data(query_prometheus(<<"cpu", pod_name, namespace, container_name>>,
                              outcomes.cpu),
             query_prometheus(<<"memory", pod_name, namespace, container_name>>,
                              outcomes.mem))

\* the pods of one namespace whatever their phase
PodsOfAnyPhase(namespace) ==
    LET inside(p) == p.namespace = namespace
        found == SelectSeq(ClusterPods, inside)
    IN  [i \in 1..Len(found) |->
            [name |-> found[i].name, namespace |-> namespace]]

\* the running pods of one namespace, as get_all_pods records them
RunningPods(namespace) ==
    LET running(p) == p.namespace = namespace /\ p.phase = "Running"
        found == SelectSeq(ClusterPods, running)
    IN  [i \in 1..Len(found) |->
            [name |-> found[i].name, namespace |-> namespace]]

\* the loop over the namespaces to list; failing: the namespaces whose
\* list_namespaced_pod raises; warn: a skipped namespace is reported
RECURSIVE ListPods(_, _, _, _)
ListPods(namespaces, excluded_namespaces, failing, warn) ==
    IF namespaces = <<>> THEN [pods |-> <<>>, log |-> <<>>]
    ELSE LET ns == Head(namespaces)
             rest == ListPods(Tail(namespaces), excluded_namespaces, failing, warn)
         IN  IF \E i \in 1..Len(excluded_namespaces) : excluded_namespaces[i] = ns
             THEN [pods |-> rest.pods,
                   log |-> (IF warn
                            THEN << Event("Warning: target namespace excluded",
                                          ns, <<>>, "") >>
                            ELSE <<>>) \o rest.log]
             ELSE IF ns \in failing
             THEN [pods |-> rest.pods,
                   log |-> << Event("Error fetching pods from namespace",
                                    ns, <<>>, "") >> \o rest.log]
             ELSE [pods |-> RunningPods(ns) \o rest.pods, log |-> rest.log]

\* target_namespaces: <<>> stands for None
get_all_pods(excluded_namespaces, target_namespaces, failing) ==
    IF target_namespaces # <<>>
    THEN ListPods(target_namespaces, excluded_namespaces, failing, TRUE)
    ELSE ListPods(ClusterNamespaces, excluded_namespaces, failing, FALSE)

\* v1.read_namespaced_pod
get_pod(pod_name, namespace) ==
    CHOOSE p \in {ClusterPods[i] : i \in 1..Len(ClusterPods)} :
        p.name = pod_name /\ p.namespace = namespace

----------------------------------------------------------------------------
(* analyze_pod and main: src/main.py.                                      *)

\* current_resources of a container
CurrentResources(resources) ==
    [requests |->
        IF resources.requests # <<>>
        THEN [cpu |-> Get(resources.requests, "cpu", NA),
              memory |-> Get(resources.requests, "memory", NA)]
        ELSE <<>>,
     limits |->
        IF resources.limits # <<>>
        THEN [cpu |-> Get(resources.limits, "cpu", NA),
              memory |-> Get(resources.limits, "memory", NA)]
        ELSE <<>>]

\* the loop over the first k containers of a pod; it ends at the first
\* exception
RECURSIVE AnalyzeContainers(_, _, _, _, _, _)
AnalyzeContainers(containers, k, pod_name, namespace, buffer_percent, metrics) ==
    LET Analyzed(before, data) ==
            LET Recorded(rec) ==
                    IF rec.raised
                    THEN [raised |-> TRUE, val |-> before.val,
                          log |-> before.log \o data.log,
                          function |-> "calculate_recommendations"]
                    ELSE [raised |-> FALSE,
                          val |-> Append(before.val,
                                         Container(containers[k].name,
                                                   CurrentResources(
                                                       containers[k].resources),
                                                   rec.val)),
                          log |-> before.log \o data.log,
                          function |-> ""]
            IN  IF before.raised THEN before
                ELSE IF data.raised
                THEN [raised |-> TRUE, val |-> before.val,
                      log |-> before.log \o data.log,
                      function |-> "query_prometheus"]
                ELSE Recorded(calculate_recommendations(
                                  data.cpu_data, data.mem_data, buffer_percent))
    IN  IF k = 0
        THEN [raised |-> FALSE, val |-> <<>>, log |-> <<>>, function |-> ""]
        ELSE Analyzed(AnalyzeContainers(containers, k - 1, pod_name, namespace,
                                        buffer_percent, metrics),
                      get_container_metrics(containers[k].name, pod_name,
                                            namespace, metrics[k]))

\* read: whether get_pod answers; metrics: the outcomes of the two queries
\* of each container.  none: the call returned None.
analyze_pod(pod_name, namespace, buffer_percent, read, metrics) ==
    LET Analysis(recs) ==
            [raised |-> recs.raised, none |-> FALSE,
             val |-> [pod |-> pod_name, namespace |-> namespace,
                      containers |-> recs.val],
             function |-> recs.function,
             log |-> recs.log]
        Loop(pod) ==
            Analysis(AnalyzeContainers(pod.containers, Len(pod.containers),
                                       pod_name, namespace, buffer_percent,
                                       metrics))
    IN  IF ~read
        THEN [raised |-> FALSE, none |-> TRUE, val |-> <<>>, function |-> "",
              log |-> << Event("Error reading pod", namespace, pod_name, "") >>]
        ELSE Loop(get_pod(pod_name, namespace))

\* the settings of a run: which namespaces to scan, ...
NamespaceSettings ==
    { [target |-> <<>>, excluded |-> <<NsK>>],
      [target |-> <<>>, excluded |-> <<>>],
      [target |-> <<NsK, NsA>>, excluded |-> <<>>],
      [target |-> <<NsA, NsK>>, excluded |-> <<NsK>>] }

\* ... the reports to make, whether the token and the channel of the
\* notification are set, and whether standard output is a terminal
RunSettings ==
    { [format |-> "both", token |-> TRUE, channel |-> TRUE, colors |-> FALSE],
      [format |-> "table", token |-> TRUE, channel |-> FALSE, colors |-> TRUE],
      [format |-> "yaml", token |-> TRUE, channel |-> TRUE, colors |-> FALSE],
      [format |-> "yaml", token |-> FALSE, channel |-> TRUE, colors |-> FALSE] }

\* get_settings() and USE_COLORS; buffer_percent keeps its default
DefaultBuffer == 20

Settings ==
    { [target_namespaces |-> n.target, excluded_namespaces |-> n.excluded,
       buffer_percent |-> DefaultBuffer, output_format |-> r.format,
       slack_token |-> r.token, slack_channel |-> r.channel,
       use_colors |-> r.colors] :
          n \in NamespaceSettings, r \in RunSettings }

NoFile == [written |-> FALSE, content |-> NotRendered]
NoCall == [calls |-> 0, table_output |-> NotRendered,
           yaml_output |-> NotRendered, outcome |-> ""]

Init ==
    /\ pc = "get_all_pods"
    /\ env \in Settings
    /\ pods = <<>> /\ idx = 0 /\ log = <<>>
    /\ recommendations = <<>>
    /\ table_output = NotRendered /\ html_table_output = NotRendered
    /\ yaml_output = NotRendered
    /\ file = NoFile /\ slack = NoCall
    /\ pin = Idle /\ pout = Idle /\ cin = Idle /\ cout = Idle

\* pods = get_all_pods(...): some of the namespace list calls raise
GetAllPods ==
    /\ pc = "get_all_pods"
    /\ \E failing \in SUBSET {ClusterNamespaces[i] : i \in 1..Len(ClusterNamespaces)} :
          LET Listed(listed) ==
                  /\ pods' = listed.pods
                  /\ log' = log \o listed.log
                  /\ pc' = IF listed.pods = <<>> THEN "format"
                           ELSE "analyze_pod"
          IN  Listed(get_all_pods(env.excluded_namespaces,
                                  env.target_namespaces, failing))
    /\ UNCHANGED <<pin, pout, cin, cout, recommendations, table_output,
                   html_table_output, yaml_output, env, idx, file, slack>>

\* v1.list_namespace() raises: nothing in get_all_pods or main catches it
ListNamespaceRaises ==
    /\ pc = "get_all_pods"
    /\ env.target_namespaces = <<>>
    /\ log' = Append(log, Traceback(<<>>, <<>>, "list_namespace"))
    /\ pc' = "crashed"
    /\ UNCHANGED <<pin, pout, cin, cout, recommendations, table_output,
                   html_table_output, yaml_output, env, pods, idx, file, slack>>

\* the outcomes of the two queries of each container of the next pod
Metrics ==
    [1..Len(get_pod(pods[idx + 1].name, pods[idx + 1].namespace).containers) ->
        [cpu : QueryOutcomes(CpuResults), mem : QueryOutcomes(MemResults)]]

Analyzing == Event("Analyzing", pods[idx + 1].namespace, pods[idx + 1].name, "")

\* one turn of the loop of main: analyze_pod returns an analysis
AnalyzePod ==
    /\ pc = "analyze_pod" /\ idx < Len(pods)
    /\ \E metrics \in Metrics :
          LET Returned(result) ==
                  /\ ~result.raised /\ ~result.none
                  /\ recommendations' = Append(recommendations, result.val)
                  /\ log' = log \o <<Analyzing>> \o result.log
          IN  Returned(analyze_pod(pods[idx + 1].name, pods[idx + 1].namespace,
                                   env.buffer_percent, TRUE, metrics))
    /\ idx' = idx + 1
    /\ pc' = IF idx + 1 = Len(pods) THEN "format" ELSE "analyze_pod"
    /\ UNCHANGED <<pin, pout, cin, cout, table_output, html_table_output,
                   yaml_output, env, pods, file, slack>>

\* a failed read that ends the loop: the pods after it are not analysed
ReadPodAborts ==
    /\ pc = "analyze_pod" /\ idx < Len(pods)
    /\ log' = log \o << Analyzing,
                        Event("Error reading pod", pods[idx + 1].namespace,
                              pods[idx + 1].name, "") >>
    /\ idx' = idx + 1
    /\ pc' = "format"
    /\ UNCHANGED <<pin, pout, cin, cout, recommendations, table_output,
                   html_table_output, yaml_output, env, pods, file, slack>>

\* one turn of the loop of main: get_pod raises, analyze_pod returns None
ReadPodFails ==
    /\ pc = "analyze_pod" /\ idx < Len(pods)
    /\ LET Returned(result) ==
               /\ ~result.raised /\ result.none
               /\ log' = log \o <<Analyzing>> \o result.log
       IN  Returned(analyze_pod(pods[idx + 1].name, pods[idx + 1].namespace,
                                env.buffer_percent, FALSE, <<>>))
    /\ idx' = idx + 1
    /\ pc' = IF idx + 1 = Len(pods) THEN "format" ELSE "analyze_pod"
    /\ UNCHANGED <<pin, pout, cin, cout, recommendations, table_output,
                   html_table_output, yaml_output, env, pods, file, slack>>

\* one turn of the loop of main: an exception leaves analyze_pod and main
AnalyzePodRaises ==
    /\ pc = "analyze_pod" /\ idx < Len(pods)
    /\ \E metrics \in Metrics :
          LET Raised(result) ==
                  /\ result.raised
                  /\ log' = log \o <<Analyzing>> \o result.log
                                \o << Traceback(pods[idx + 1].namespace,
                                                pods[idx + 1].name,
                                                result.function) >>
          IN  Raised(analyze_pod(pods[idx + 1].name, pods[idx + 1].namespace,
                                 env.buffer_percent, TRUE, metrics))
    /\ pc' = "crashed"
    /\ UNCHANGED <<pin, pout, cin, cout, recommendations, table_output,
                   html_table_output, yaml_output, env, pods, idx, file, slack>>

\* table_output and html_table_output, for the formats 'table' and 'both'
FormatTables ==
    /\ pc = "format"
    /\ IF env.output_format \in {"table", "both"}
       THEN /\ table_output' = format_as_table(recommendations, env.use_colors)
            /\ html_table_output' = format_as_html_table(recommendations)
            /\ log' = Append(log, Event("table_output", <<>>, <<>>, ""))
       ELSE UNCHANGED <<table_output, html_table_output, log>>
    /\ pc' = IF table_output'.raised \/ html_table_output'.raised
             THEN "crashed" ELSE "format_yaml"
    /\ UNCHANGED <<pin, pout, cin, cout, recommendations, yaml_output, env,
                   pods, idx, file, slack>>

\* yaml_output, printed and written to resource-recommendations.yaml, for
\* the formats 'yaml' and 'both'
FormatYaml ==
    /\ pc = "format_yaml"
    /\ IF env.output_format \in {"yaml", "both"}
       THEN /\ yaml_output' = format_as_yaml(recommendations)
            /\ file' = IF yaml_output'.raised THEN file
                       ELSE [written |-> TRUE, content |-> yaml_output']
            /\ log' = IF yaml_output'.raised THEN log
                      ELSE log \o << Event("yaml_output", <<>>, <<>>, ""),
                                     Event("YAML recommendations saved",
                                           <<>>, <<>>, "") >>
       ELSE UNCHANGED <<yaml_output, file, log>>
    /\ pc' = IF yaml_output'.raised THEN "crashed" ELSE "send_to_slack"
    /\ UNCHANGED <<pin, pout, cin, cout, recommendations, table_output,
                   html_table_output, env, pods, idx, slack>>

\* open('resource-recommendations.yaml', 'w') raises after the report is printed
YamlFileRaises ==
    /\ pc = "format_yaml"
    /\ env.output_format \in {"yaml", "both"}
    /\ yaml_output' = format_as_yaml(recommendations)
    /\ log' = log \o << Event("yaml_output", <<>>, <<>>, ""),
                        Traceback(<<>>, <<>>, "open") >>
    /\ pc' = "crashed"
    /\ UNCHANGED <<pin, pout, cin, cout, recommendations, table_output,
                   html_table_output, env, pods, idx, file, slack>>

\* the condition of main without the test of the channel
NotifiesWithoutChannel ==
    /\ env.slack_token
    /\ table_output # NotRendered \/ yaml_output # NotRendered

\* settings.slack_token and settings.slack_channel and
\* (table_output or yaml_output)
Notifies ==
    /\ env.slack_token /\ env.slack_channel
    /\ table_output # NotRendered \/ yaml_output # NotRendered

\* x or default, for a report x and a fixed string
Or(x, default) == IF x # NotRendered THEN x ELSE Sentinel(default)

\* send_to_slack: it posts and uploads, and reports what it catches
SendToSlack ==
    /\ pc = "send_to_slack"
    /\ Notifies
    /\ \E outcome \in {"Successfully sent recommendations to Slack",
                       "Error sending to Slack",
                       "Error creating or uploading files"} :
          /\ slack' = [calls |-> slack.calls + 1,
                       table_output |->
                          IF html_table_output # NotRendered
                          THEN html_table_output
                          ELSE Or(table_output, "No table output"),
                       yaml_output |-> Or(yaml_output, "No YAML output"),
                       outcome |-> outcome]
          /\ log' = Append(log, Event(outcome, <<>>, <<>>, ""))
    /\ pc' = "done"
    /\ UNCHANGED <<pin, pout, cin, cout, recommendations, table_output,
                   html_table_output, yaml_output, env, pods, idx, file>>

\* no token, no channel or nothing rendered: main ends without the call
SkipSlack ==
    /\ pc = "send_to_slack"
    /\ ~Notifies
    /\ pc' = "done"
    /\ UNCHANGED <<pin, pout, cin, cout, recommendations, table_output,
                   html_table_output, yaml_output, env, pods, idx, log, file,
                   slack>>

Next ==
    \/ GetAllPods
    \/ ListNamespaceRaises
    \/ AnalyzePod
    \/ ReadPodFails
    \/ AnalyzePodRaises
    \/ FormatTables
    \/ FormatYaml
    \/ YamlFileRaises
    \/ SendToSlack
    \/ SkipSlack

Spec == Init /\ [][Next]_vars

\* the lines of log with a given message, in the order they were printed
Logged(event) ==
    LET said(e) == e.event = event
    IN  SelectSeq(log, said)

\* the pod (name, namespace) a log line or an analysis is about
PodOf(x) == [name |-> x.pod, namespace |-> x.namespace]

ReadFailed(p) ==
    \E j \in 1..Len(log) :
        log[j].event = "Error reading pod" /\ PodOf(log[j]) = p

\* main has left its loop over the pods
Rendering == pc \in {"format", "format_yaml", "send_to_slack", "done"}

\* C7: main takes the pods one after another in the order get_all_pods
\* returned them: the turns announced so far are the first pods of the list,
\* and every message of a turn comes before the next turn is announced.  A
\* failed read does not end the loop: when main renders, every pod has had
\* its turn, and the result list holds one analysis for each pod whose read
\* succeeded, in the order of the list.
C7_SequentialInListerOrder ==
    LET announced == Logged("Analyzing")
        read(p) == ~ReadFailed(p)
        during(j) == CHOOSE i \in 1..j :
                        /\ log[i].event = "Analyzing"
                        /\ \A k \in (i + 1)..j : log[k].event # "Analyzing"
    IN  /\ Len(announced) <= Len(pods)
        /\ \A i \in 1..Len(announced) : PodOf(announced[i]) = pods[i]
        /\ pc # "crashed" => Len(announced) = idx
        /\ \A j \in 1..Len(log) :
              log[j].event \in {"Error reading pod", "Error querying Prometheus"}
                  => /\ \E i \in 1..j : log[i].event = "Analyzing"
                     /\ PodOf(log[during(j)]) = PodOf(log[j])
        /\ Rendering =>
              /\ idx = Len(pods)
              /\ [i \in 1..Len(recommendations) |-> PodOf(recommendations[i])]
                     = SelectSeq(pods, read)

\* the read of the first pod failed and the pods after it were analysed
C7_LaterPodsAnalysed ==
    /\ pc = "format"
    /\ Len(pods) >= 2
    /\ ReadFailed(pods[1])
    /\ Len(recommendations) = Len(pods) - 1
    /\ PodOf(recommendations[1]) = pods[2]

\* the namespaces get_all_pods lists the pods of
Scanned ==
    LET listed == IF env.target_namespaces # <<>> THEN env.target_namespaces
                  ELSE ClusterNamespaces
        included(ns) == \A i \in 1..Len(env.excluded_namespaces) :
                           env.excluded_namespaces[i] # ns
    IN  SelectSeq(listed, included)

FetchFailed(ns) ==
    \E j \in 1..Len(log) :
        log[j].event = "Error fetching pods from namespace" /\ log[j].namespace = ns

\* how many queries for a resource of a pod's containers were reported failed
QueryErrors(p, resource) ==
    Cardinality({j \in 1..Len(log) :
                    /\ log[j].event = "Error querying Prometheus"
                    /\ PodOf(log[j]) = p
                    /\ log[j].detail = resource})

\* how many containers of an analysis are recommended the given request and
\* limit of a resource
Recommended(analysis, resource, request, limit) ==
    Cardinality({i \in 1..Len(analysis.containers) :
                    /\ analysis.containers[i].recommended.requests[resource] = request
                    /\ analysis.containers[i].recommended.limits[resource] = limit})

\* C8: a failed namespace list call or a failed metrics query does not end
\* the run.  No exception that leaves main comes from list_namespaced_pod or
\* from query_prometheus; a namespace whose list call failed is reported and
\* contributes no pod, while every other scanned namespace contributes its
\* running pods; a failed query is reported and its container is analysed
\* from an empty series (with the default buffer of 20: 12m/18m for CPU,
\* 19Mi/28Mi for memory), so that its pod has its analysis in the result list.
C8_TransientFailuresTolerated ==
    LET inNamespace(ns) == LET there(p) == p.namespace = ns
                           IN  SelectSeq(pods, there)
    IN  /\ pc = "crashed" =>
              /\ log[Len(log)].event = "Traceback"
              /\ log[Len(log)].detail \in
                     {"list_namespace", "calculate_recommendations", "open"}
        /\ pc = "analyze_pod" \/ Rendering =>
              \A i \in 1..Len(Scanned) :
                  inNamespace(Scanned[i]) =
                      IF FetchFailed(Scanned[i]) THEN <<>>
                      ELSE RunningPods(Scanned[i])
        /\ \A i \in 1..Len(recommendations) :
              /\ Recommended(recommendations[i], "cpu",
                             <<"1", "2", "m">>, <<"1", "8", "m">>)
                     = QueryErrors(PodOf(recommendations[i]), "cpu")
              /\ Recommended(recommendations[i], "memory",
                             <<"1", "9", "M", "i">>, <<"2", "8", "M", "i">>)
                     = QueryErrors(PodOf(recommendations[i]), "memory")
        /\ pc # "crashed" =>
              \A i \in 1..idx :
                  QueryErrors(pods[i], "cpu") + QueryErrors(pods[i], "memory") > 0
                      => \E k \in 1..Len(recommendations) :
                            PodOf(recommendations[k]) = pods[i]

\* a run that met a failed namespace list call and a failed query, and went
\* on to render the analyses of the remaining pods and to finish
C8_RunEndsAfterFailures ==
    /\ pc = "done"
    /\ \E j \in 1..Len(log) : log[j].event = "Error fetching pods from namespace"
    /\ \E j \in 1..Len(log) : log[j].event = "Error querying Prometheus"
    /\ recommendations # <<>>
    /\ yaml_output.rows # <<>>
    /\ file.written

----------------------------------------------------------------------------
(* IEEE 754 binary64, the arithmetic of Python's float, for the round trip *)
(* of the codec: here the rounding of every operation is computed.  A      *)
(* natural number of any size is the sequence of its digits in base 2^15,  *)
(* the least significant first and the last one not 0.  A float is         *)
(* s * m * 2^e with m = 0 or 2^52 <= m < 2^53; the quantities of the model *)
(* stay far from overflow and from the subnormal numbers.                  *)

Limb == 2^15

RECURSIVE BigNat(_)
BigNat(k) == IF k = 0 THEN <<>> ELSE <<k % Limb>> \o BigNat(k \div Limb)

\* the value of a number below 2^31
RECURSIVE BigInt(_)
BigInt(n) == IF n = <<>> THEN 0 ELSE Head(n) + Limb * BigInt(Tail(n))

RECURSIVE BigTrim(_)
BigTrim(n) == IF n # <<>> /\ n[Len(n)] = 0 THEN BigTrim(DropLast(n, 1)) ELSE n

\* n * c + carry for 0 < c <= 2^15
RECURSIVE BigTimes(_, _, _)
BigTimes(n, c, carry) ==
    IF n = <<>> THEN BigNat(carry)
    ELSE <<(Head(n) * c + carry) % Limb>>
             \o BigTimes(Tail(n), c, (Head(n) * c + carry) \div Limb)

\* n * c^k
RECURSIVE BigTimesPow(_, _, _)
BigTimesPow(n, c, k) ==
    IF k <= 0 THEN n ELSE BigTimesPow(BigTimes(n, c, 0), c, k - 1)

\* quotient (not trimmed) and remainder of n by c, 0 < c <= 2^15
RECURSIVE BigDivMod(_, _)
BigDivMod(n, c) ==
    LET Step(hi) == [q |-> <<(hi.r * Limb + Head(n)) \div c>> \o hi.q,
                     r |-> (hi.r * Limb + Head(n)) % c]
    IN  IF n = <<>> THEN [q |-> <<>>, r |-> 0]
        ELSE Step(BigDivMod(Tail(n), c))

\* floor(n / (by[1] * by[2] * ...)) and whether the division leaves a remainder
RECURSIVE BigDivAll(_, _)
BigDivAll(n, by) ==
    LET Step(first) ==
            LET Rest(r) == [q |-> r.q, inexact |-> r.inexact \/ first.r # 0]
            IN  Rest(BigDivAll(BigTrim(first.q), Tail(by)))
    IN  IF by = <<>> THEN [q |-> n, inexact |-> FALSE]
        ELSE Step(BigDivMod(n, Head(by)))

RECURSIVE BitsOf(_)
BitsOf(k) == IF k = 0 THEN 0 ELSE 1 + BitsOf(k \div 2)

BitLen(n) == IF n = <<>> THEN 0 ELSE 15 * (Len(n) - 1) + BitsOf(n[Len(n)])

\* n * 2^d
BigShl(n, d) ==
    IF n = <<>> THEN <<>>
    ELSE BigTimes([i \in 1..(d \div 15) |-> 0] \o n, Pow(2, d % 15), 0)

\* floor(n / 2^d)
BigShr(n, d) ==
    IF d \div 15 >= Len(n) THEN <<>>
    ELSE BigTrim(BigDivMod(SubSeq(n, (d \div 15) + 1, Len(n)),
                           Pow(2, d % 15)).q)

BigOdd(n) == n # <<>> /\ n[1] % 2 = 1

RECURSIVE BigSucc(_)
BigSucc(n) == IF n = <<>> THEN <<1>>
              ELSE IF Head(n) + 1 < Limb THEN <<Head(n) + 1>> \o Tail(n)
              ELSE <<0>> \o BigSucc(Tail(n))

\* a < b
BigLess(a, b) ==
    IF Len(a) # Len(b) THEN Len(a) < Len(b)
    ELSE \E i \in 1..Len(a) :
            a[i] < b[i] /\ \A j \in (i + 1)..Len(a) : a[j] = b[j]

\* a - b - borrow (not trimmed) for a >= b + borrow
RECURSIVE BigMinus(_, _, _)
BigMinus(a, b, borrow) ==
    LET Digit(t) == <<(t + Limb) % Limb>>
                        \o BigMinus(Tail(a), IF b = <<>> THEN <<>> ELSE Tail(b),
                                    IF t < 0 THEN 1 ELSE 0)
    IN  IF a = <<>> THEN <<>>
        ELSE Digit(Head(a) - (IF b = <<>> THEN 0 ELSE Head(b)) - borrow)

F64Zero == [s |-> 1, m |-> <<>>, e |-> 0]

\* the float nearest to s * (n + f) * 2^e, ties to the even one, where
\* 0 <= f < 1, and f > 0 exactly if inexact; n has 55 bits or more if inexact
RoundNearestEven(s, n, e, inexact) ==
    LET Carried(m, x) ==
            IF BitLen(m) > 53 THEN [s |-> s, m |-> BigShr(m, 1), e |-> x + 1]
            ELSE [s |-> s, m |-> m, e |-> x]
        Rounded(d, q, half, rest) ==
            Carried(IF half /\ (rest \/ BigOdd(q)) THEN BigSucc(q) ELSE q, e + d)
        Dropped(d) ==
            Rounded(d, BigShr(n, d), BigOdd(BigShr(n, d - 1)),
                    inexact \/ BigShl(BigShr(n, d - 1), d - 1) # n)
        Widened(d) == [s |-> s, m |-> BigShl(n, d), e |-> e - d]
    IN  IF n = <<>> THEN F64Zero
        ELSE IF BitLen(n) <= 53 THEN Widened(53 - BitLen(n))
        ELSE Dropped(BitLen(n) - 53)

\* the float nearest to s * n / (by[1] * by[2] * ...) * 2^e
F64Ratio(s, n, by, e) ==
    LET Quotient(r, room) ==
            RoundNearestEven(s, BigTrim(r.q), e - room, r.inexact)
        Shifted(room) == Quotient(BigDivAll(BigShl(n, room), by), room)
    IN  Shifted(64 + 15 * Len(by))

\* float(literal): the float nearest to the number written
Float64(r) ==
    F64Ratio(IF r.n < 0 THEN -1 ELSE 1,
             BigTimesPow(BigNat(Abs(r.n)), 5, r.e5),
             (IF r.d = 1 THEN <<>> ELSE <<r.d>>) \o [i \in 1..(-r.e5) |-> 5],
             r.e2)

\* x * c and x / (by[1] * by[2] * ...) for small integers
F64Times(x, c) == RoundNearestEven(x.s, BigTimes(x.m, c, 0), x.e, FALSE)
F64Over(x, by) == F64Ratio(x.s, x.m, by, x.e)

RECURSIVE F64TimesAll(_, _)
F64TimesAll(x, cs) ==
    IF cs = <<>> THEN x ELSE F64TimesAll(F64Times(x, Head(cs)), Tail(cs))

\* int(x)
F64Trunc(x) ==
    x.s * BigInt(IF x.e >= 0 THEN BigShl(x.m, x.e) ELSE BigShr(x.m, -x.e))

\* x < y for x, y >= 0
F64Less(x, y) ==
    IF y.m = <<>> THEN FALSE
    ELSE IF x.m = <<>> THEN TRUE
    ELSE IF x.e # y.e THEN x.e < y.e
    ELSE BigLess(x.m, y.m)

\* what lines 230-245 do to float(prefix), suffix by suffix: / 1000.0,
\* / 1000000000.0, * 1024 * 1024, * 1024 * 1024 * 1024, * 1000 * 1000,
\* * 1000 * 1000 * 1000
Units64 ==
    <<[over |-> <<1000>>,             times |-> <<>>],
      [over |-> <<1000, 1000, 1000>>, times |-> <<>>],
      [over |-> <<>>,                 times |-> <<1024, 1024>>],
      [over |-> <<>>,                 times |-> <<1024, 1024, 1024>>],
      [over |-> <<>>,                 times |-> <<1000, 1000>>],
      [over |-> <<>>,                 times |-> <<1000, 1000, 1000>>]>>

Scaled64(value, unit) ==
    LET Factor(x, u) ==
            IF u.over # <<>> THEN F64Over(x, u.over) ELSE F64TimesAll(x, u.times)
        Converted(x) ==
            IF unit = 0
            THEN [raised |-> FALSE,
                  val |-> IF x.raised THEN F64Zero ELSE Float64(x.val)]
            ELSE IF x.raised THEN [raised |-> TRUE, val |-> F64Zero]
            ELSE [raised |-> FALSE, val |-> Factor(Float64(x.val), Units64[unit])]
    IN  Converted(ParseFloat(IF unit = 0 THEN value
                             ELSE DropLast(value, Len(Units[unit].suffix))))

\* parse_resource_value in float arithmetic
parse_resource_value64(value) ==
    IF value = NA \/ value = <<>> THEN [raised |-> FALSE, val |-> F64Zero]
    ELSE Scaled64(Strip(value), Unit(Strip(value)))

\* format_resource_value in float arithmetic
format_resource_value64(value, resource_type) ==
    IF resource_type = "cpu"
    THEN IntToStr(F64Trunc(F64Times(value, 1000))) \o <<"m">>
    ELSE IntToStr(F64Trunc(F64Over(F64Over(value, <<1024>>), <<1024>>)))
             \o <<"M", "i">>

\* ---- the round trip format_resource_value, then parse_resource_value

\* the float next below x > 0
F64Pred(x) ==
    LET Below(m) ==
            IF BitLen(m) < 53
            THEN [s |-> x.s, m |-> BigSucc(BigShl(m, 1)), e |-> x.e - 1]
            ELSE [s |-> x.s, m |-> m, e |-> x.e]
    IN  Below(BigTrim(BigMinus(x.m, <<1>>, 0)))

MaxQuantity == 30

\* quantities in cores: 0m .. 30m, three greater ones and a fraction of a
\* millicore
CpuQuantities ==
    {NatToStr(k) \o <<"m">> : k \in 0..MaxQuantity}
        \cup { <<"1", "1", "7", "m">>, <<"1", "0", "0", "1", "m">>,
               <<"1", "2", "8", "0", "0", "4", "m">>,
               <<"0", ".", "0", "0", "0", "4">> }

\* quantities in bytes: 0Mi .. 30Mi, and four that are no whole number of Mi
MemQuantities ==
    {NatToStr(k) \o <<"M", "i">> : k \in 0..MaxQuantity}
        \cup { <<"1", ".", "5", "M", "i">>, <<"1", "0", "0", "0", "0", "0", "0">>,
               <<"1", "2", "8", "M">>, <<"2", "G", "i">> }

\* the floats these quantities parse to, and for each the float next below it
WithPred(x) == IF x.m = <<>> THEN {x} ELSE {x, F64Pred(x)}
RoundTripValues(quantities) ==
    UNION {WithPred(parse_resource_value64(q).val) : q \in quantities}

InitRoundTrip ==
    /\ pc = "format_resource_value"
    /\ pin \in [value : RoundTripValues(CpuQuantities), resource_type : {"cpu"}]
           \cup [value : RoundTripValues(MemQuantities), resource_type : {"memory"}]
    /\ pout = Idle
    /\ cin = Idle /\ cout = Idle
    /\ recommendations = <<>>
    /\ table_output = NotRendered /\ html_table_output = NotRendered
    /\ yaml_output = NotRendered
    /\ env = Idle /\ pods = <<>> /\ idx = 0 /\ log = <<>>
    /\ file = Idle /\ slack = Idle

\* format_resource_value(x, resource_type)
Format ==
    /\ pc = "format_resource_value"
    /\ pout' = [formatted |-> format_resource_value64(pin.value, pin.resource_type)]
    /\ pc' = "parse_resource_value"
    /\ UNCHANGED <<pin, cin, cout, recommendations, table_output,
                   html_table_output, yaml_output, env, pods, idx, log, file,
                   slack>>

\* parse_resource_value of the string just formatted
ParseBack ==
    /\ pc = "parse_resource_value"
    /\ pout' = [formatted |-> pout.formatted,
                parsed |-> parse_resource_value64(pout.formatted)]
    /\ pc' = "round trip"
    /\ UNCHANGED <<pin, cin, cout, recommendations, table_output,
                   html_table_output, yaml_output, env, pods, idx, log, file,
                   slack>>

NextRoundTrip == Format \/ ParseBack

SpecRoundTrip == InitRoundTrip /\ [][NextRoundTrip]_vars

\* x - y as d * 2^e, for floats x >= y >= 0
Gap(x, y) ==
    IF y.m = <<>> THEN [d |-> x.m, e |-> x.e]
    ELSE [d |-> BigTrim(BigMinus(BigShl(x.m, x.e - Min(x.e, y.e)),
                                 BigShl(y.m, y.e - Min(x.e, y.e)), 0)),
          e |-> Min(x.e, y.e)]

\* g < 1/1000 and g < 2^20
BelowMilli(g) ==
    g.d = <<>> \/ (g.e < 0 /\ BigLess(BigTimes(g.d, 1000, 0), BigShl(<<1>>, -g.e)))
BelowMebi(g) ==
    g.d = <<>> \/ (g.e < 20 /\ BigLess(g.d, BigShl(<<1>>, 20 - g.e)))

\* parse(format(x)) is a number y <= x with x - y below one unit of the type
RoundTripLoses(unit) ==
    /\ ~pout.parsed.raised
    /\ ~F64Less(pin.value, pout.parsed.val)
    /\ IF unit = "m" THEN BelowMilli(Gap(pin.value, pout.parsed.val))
       ELSE BelowMebi(Gap(pin.value, pout.parsed.val))

\* C12: for every x >= 0, parse_resource_value(format_resource_value(x,
\* "cpu")) never exceeds x and differs from x by less than one millicore
\* (0.001), and parse_resource_value(format_resource_value(x, "memory"))
\* never exceeds x and differs from x by less than one MiB (2^20).
C12_RoundTrip ==
    pc = "round trip" =>
        RoundTripLoses(IF pin.resource_type = "cpu" THEN "m" ELSE "Mi")

\* 128.004 cores: 128.004 * 1000 is 128003.99999999999 in float arithmetic,
\* formatted "128003m"; 128.004 - 128.003 is not below 0.001
C12_MillicoreLost ==
    /\ pc = "round trip"
    /\ pin.resource_type = "cpu"
    /\ pin.value = parse_resource_value64(<<"1", "2", "8", "0", "0", "4", "m">>).val
    /\ pout.formatted = <<"1", "2", "8", "0", "0", "3", "m">>
    /\ ~BelowMilli(Gap(pin.value, pout.parsed.val))

\* what does hold: the round trip of a memory quantity
C12_RoundTripMemory ==
    (pc = "round trip" /\ pin.resource_type = "memory") => RoundTripLoses("Mi")

----------------------------------------------------------------------------
(* The bundles given to resources_are_same.                                *)

\* a dict with any of the keys cpu and memory
Sections(cpus, mems) ==
    {<<>>} \cup {[cpu |-> c] : c \in cpus} \cup {[memory |-> m] : m \in mems}
        \cup {[cpu |-> c, memory |-> m] : c \in cpus, m \in mems}

\* a dict with any of the keys requests and limits
Bundles(requests, limits) ==
    {<<>>} \cup {[requests |-> r] : r \in requests}
        \cup {[limits |-> l] : l \in limits}
        \cup {[requests |-> r, limits |-> l] : r \in requests, l \in limits}

\* 0.1 core written in three ways, half a millicore and one millicore more,
\* and a string that is no quantity
RequestCpus == { <<"1", "0", "0", "m">>, <<"0", ".", "1">>,
                 <<"1", "0", "0", ".", "5", "m">>, <<"1", "0", "1", "m">>,
                 <<"x", "m">> }

RequestMems == { <<"1", "2", "8", "M", "i">>,
                 <<"1", "3", "4", "2", "1", "7", "7", "2", "8">> }

SameBundles ==
    Bundles(Sections(RequestCpus, RequestMems),
            Sections({<<"2", "0", "0", "m">>}, {NA, <<"2", "5", "6", "M", "i">>})
                \ {<<>>, [memory |-> NA]})

InitSame ==
    /\ pc = "resources_are_same"
    /\ cin \in [current : SameBundles, recommended : SameBundles]
    /\ cout = Idle
    /\ pin = Idle /\ pout = Idle
    /\ recommendations = <<>>
    /\ table_output = NotRendered /\ html_table_output = NotRendered
    /\ yaml_output = NotRendered
    /\ env = Idle /\ pods = <<>> /\ idx = 0 /\ log = <<>>
    /\ file = Idle /\ slack = Idle

\* one call resources_are_same(current, recommended)
Compare ==
    /\ pc = "resources_are_same"
    /\ cout' = resources_are_same(cin.current, cin.recommended)
    /\ pc' = "compared"
    /\ UNCHANGED <<pin, pout, cin, recommendations, table_output,
                   html_table_output, yaml_output, env, pods, idx, log, file,
                   slack>>

NextSame == Compare

SpecSame == InitSame /\ [][NextSame]_vars

\* the string of a field of a bundle, "N/A" for a field that is missing
FieldOf(bundle, section, resource) ==
    IF section \in DOMAIN bundle /\ resource \in DOMAIN bundle[section]
    THEN bundle[section][resource]
    ELSE NA

\* the number a field stands for: 0 for a string that is no quantity
NumberOf(bundle, section, resource) ==
    IF parse_resource_value(FieldOf(bundle, section, resource)).raised THEN Zero
    ELSE parse_resource_value(FieldOf(bundle, section, resource)).val

\* every field of a differs from that field of b by less than 0.001
SameByFields(a, b) ==
    \A section \in {"requests", "limits"} : \A resource \in {"cpu", "memory"} :
        Less(AbsNum(Sub(NumberOf(a, section, resource),
                        NumberOf(b, section, resource))),
             Rat(1, 1000))

\* every field of both bundles is "N/A", missing, or a string that parses
Quantities4(a, b) ==
    \A bundle \in {a, b} :
        \A section \in {"requests", "limits"} : \A resource \in {"cpu", "memory"} :
            ~parse_resource_value(FieldOf(bundle, section, resource)).raised

SameIff ==
    /\ cout = [raised |-> FALSE,
               val |-> SameByFields(cin.current, cin.recommended)]
    /\ cin.current = cin.recommended => cout.val
    /\ cout = resources_are_same(cin.recommended, cin.current)

\* C13: resources_are_same(a, b) is true exactly when each of the four
\* fields requests.cpu, requests.memory, limits.cpu, limits.memory (a missing
\* field counting as "N/A", that is 0) differs between a and b by less than
\* 0.001 after parsing; it is reflexive (same(a, a) is true) and symmetric
\* (same(a, b) = same(b, a)) for all bundles.
C13_SameIff == pc = "compared" => SameIff

\* a bundle whose CPU request is "xm", compared with itself: the call ends in
\* the ValueError of float("x") and returns nothing
C13_MalformedRaises ==
    /\ pc = "compared"
    /\ cin.current = [requests |-> [cpu |-> <<"x", "m">>]]
    /\ cin.recommended = cin.current
    /\ cout.raised

\* what does hold: the claim for bundles whose fields parse
C13_SameIffOnQuantities ==
    (pc = "compared" /\ Quantities4(cin.current, cin.recommended)) => SameIff

----------------------------------------------------------------------------
(* The pairs given to _colorize_recommendation and _get_html_class.        *)

\* current values that stand for no quantity: unset, empty, zero, malformed
ClassifyUnset == {NA, <<>>, <<"0", "m">>, <<"0">>, Garbage, Random}

ClassifyCpus ==
    {<<"1", "0", "0", "m">>, <<"0", ".", "1">>, <<"1", "0", "m">>,
     <<"-", "1", "0", "0", "m">>}

ClassifyMems == {<<"1", "2", "8", "M", "i">>, <<"1", "0", "0", "M", "i">>}

\* recommended values as format_resource_value writes them
ClassifyCpuRecommended ==
    {NatToStr(k) \o <<"m">> :
        k \in {8, 49, 50, 79, 100, 120, 121, 150, 151, 500}}

ClassifyMemRecommended ==
    {NatToStr(k) \o <<"M", "i">> : k \in {49, 64, 128, 256}}

\* a cell compares a current value with the recommended value of its column
ClassifyPairs ==
    [current_val : ClassifyUnset \cup ClassifyCpus,
     recommended_val : ClassifyCpuRecommended, use_colors : BOOLEAN]
        \cup [current_val : ClassifyUnset \cup ClassifyMems,
              recommended_val : ClassifyMemRecommended, use_colors : BOOLEAN]

InitClassify ==
    /\ pc = "classify"
    /\ cin \in ClassifyPairs
    /\ cout = Idle
    /\ pin = Idle /\ pout = Idle
    /\ recommendations = <<>>
    /\ table_output = NotRendered /\ html_table_output = NotRendered
    /\ yaml_output = NotRendered
    /\ env = Idle /\ pods = <<>> /\ idx = 0 /\ log = <<>>
    /\ file = Idle /\ slack = Idle

\* one cell of the table and the same cell of the HTML table
Classify ==
    /\ pc = "classify"
    /\ cout' = [colour |-> _colorize_recommendation(cin.current_val,
                                                    cin.recommended_val,
                                                    cin.use_colors),
                class |-> _get_html_class(cin.current_val,
                                          cin.recommended_val)]
    /\ pc' = "classified"
    /\ UNCHANGED <<pin, pout, cin, recommendations, table_output,
                   html_table_output, yaml_output, env, pods, idx, log, file,
                   slack>>

NextClassify == Classify

SpecClassify == InitClassify /\ [][NextClassify]_vars

\* the number a string stands for: 0 for a string that is no quantity
QuantityOf(value) ==
    IF parse_resource_value(value).raised THEN Zero
    ELSE parse_resource_value(value).val

\* d = (recommended - current) / current * 100, for current # 0
PercentChange(current_val, recommended_val) ==
    Mul(Div(Sub(QuantityOf(recommended_val), QuantityOf(current_val)),
            QuantityOf(current_val)),
        Int2Num(100))

\* the bucket of a percent change: <<colour, class>>
BucketOf(d) ==
    IF Less(Int2Num(50), d) THEN <<"bright green", "increase">>
    ELSE IF Less(Int2Num(20), d) THEN <<"green", "increase">>
    ELSE IF Less(d, Int2Num(-50)) THEN <<"bright blue", "decrease">>
    ELSE IF Less(d, Int2Num(-20)) THEN <<"blue", "decrease">>
    ELSE <<"cyan", "minor">>

\* the bucket of a pair of strings
Bucket(current_val, recommended_val) ==
    IF current_val = NA \/ QuantityOf(current_val) = Zero
    THEN <<"bright green", "new">>
    ELSE BucketOf(PercentChange(current_val, recommended_val))

\* both renderers answer, and with the bucket of the pair
Classified ==
    /\ ~cout.colour.raised /\ ~cout.class.raised
    /\ cout.colour.val = [text |-> cin.recommended_val,
                          colour |-> Bucket(cin.current_val,
                                            cin.recommended_val)[1]]
    /\ cout.class.val = [text |-> cin.recommended_val,
                         class |-> Bucket(cin.current_val,
                                          cin.recommended_val)[2]]

\* C14: with colours on, the table and the HTML renderer put every pair
\* (current, recommended) in the same percent-change bucket: current "N/A"
\* or parsing to 0, any malformed current string included, is bright green /
\* new; d > 50 bright green / increase; 20 < d <= 50 green / increase;
\* d < -50 bright blue / decrease; -50 <= d < -20 blue / decrease; otherwise
\* cyan / minor; and neither fails
C14_Buckets ==
    (pc = "classified" /\ cin.use_colors) => Classified

\* a malformed current string that ends in a unit suffix: both renderers raise
C14_MalformedCurrentRaises ==
    /\ pc = "classified" /\ cin.use_colors
    /\ cin.current_val = Random
    /\ parse_resource_value(cin.current_val).raised
    /\ cout.colour.raised /\ cout.class.raised

\* what does hold: the buckets for every current string that parses or is
\* no quantity without a unit suffix
C14_BucketsOnQuantities ==
    (pc = "classified" /\ cin.use_colors
        /\ ~parse_resource_value(cin.current_val).raised) => Classified

\* every bucket is met, at and next to each threshold
C14_AllBuckets ==
    pc = "classified" /\ cin.use_colors /\ Classified
        /\ cin.current_val = <<"1", "0", "0", "m">>
        /\ cin.recommended_val = <<"1", "5", "0", "m">>
        /\ cout.colour.val.colour = "green"

----------------------------------------------------------------------------
(* The pods main works on.                                                 *)

\* the elements of a sequence
Range(seq) == {seq[i] : i \in 1..Len(seq)}

\* the phase the cluster reports for a listed pod
PhaseOf(pod) ==
    (CHOOSE p \in Range(ClusterPods) :
        p.name = pod.name /\ p.namespace = pod.namespace).phase

\* C15: get_all_pods returns only pods whose phase is "Running"; with target
\* namespaces given only these are listed, whatever the excluded list says
\* otherwise, and a namespace in both lists is skipped, so no returned pod
\* belongs to an excluded namespace, with or without target namespaces
C15_RunningAndNotExcluded ==
    \A i \in 1..Len(pods) :
        /\ PhaseOf(pods[i]) = "Running"
        /\ pods[i].namespace \notin Range(env.excluded_namespaces)
        /\ env.target_namespaces # <<>>
              => pods[i].namespace \in Range(env.target_namespaces)

\* targets a and k with k excluded: the running pods of a are returned, its
\* pending pod is not, nothing of k is, and the skip is reported
C15_TargetAlsoExcluded ==
    /\ env.target_namespaces = <<NsA, NsK>>
    /\ env.excluded_namespaces = <<NsK>>
    /\ pods # <<>>
    /\ \A i \in 1..Len(pods) : pods[i].namespace = NsA
    /\ \E p \in Range(ClusterPods) :
          /\ p.namespace = NsA /\ p.phase = "Pending"
          /\ \A i \in 1..Len(pods) : pods[i].name # p.name
    /\ \E p \in Range(ClusterPods) : p.namespace = NsK /\ p.phase = "Running"
    /\ Logged("Warning: target namespace excluded") # <<>>

----------------------------------------------------------------------------
(* The notification at the end of main.                                    *)

\* every report the output format asks for is rendered and printed, and the
\* patch document is in resource-recommendations.yaml
OutputsProduced ==
    /\ env.output_format \in {"table", "both"} =>
          /\ table_output # NotRendered /\ ~table_output.raised
          /\ html_table_output # NotRendered /\ ~html_table_output.raised
          /\ Logged("table_output") # <<>>
    /\ env.output_format \in {"yaml", "both"} =>
          /\ yaml_output # NotRendered /\ ~yaml_output.raised
          /\ Logged("yaml_output") # <<>>
          /\ file = [written |-> TRUE, content |-> yaml_output]
          /\ Logged("YAML recommendations saved") # <<>>

SlackFailures == {"Error sending to Slack", "Error creating or uploading files"}

\* send_to_slack was called at most once, with a token and a channel, after
\* the outputs; whatever it caught is printed and the run has ended
NotifiedLast ==
    /\ slack.calls <= 1
    /\ ~(env.slack_token /\ env.slack_channel) => slack.calls = 0
    /\ pc = "crashed" => slack.calls = 0
    /\ slack.calls = 1 =>
          /\ OutputsProduced
          /\ pc = "done"
          /\ Logged(slack.outcome) # <<>>
          /\ log[Len(log)].event = slack.outcome

\* the step that calls send_to_slack ends the run and leaves the reports,
\* the file and the recommendations as they were
NotificationKeepsOutputs ==
    slack' # slack =>
        /\ pc = "send_to_slack" /\ pc' = "done"
        /\ slack'.calls = slack.calls + 1
        /\ UNCHANGED <<recommendations, table_output, html_table_output,
                       yaml_output, file>>
        /\ SubSeq(log', 1, Len(log)) = log

\* C16: main calls send_to_slack at most once, only after every requested
\* report is rendered, printed and (YAML) written to
\* resource-recommendations.yaml, and not without a token or a channel; a
\* failure of the post or of an upload is caught and printed, the run ends
\* normally and the outputs already produced stay as they are
C16_NotificationLast ==
    []NotifiedLast /\ [][NotificationKeepsOutputs]_vars

\* format 'both': the post fails after both reports were printed and the
\* file written; the run ends normally
C16_FailedPostAfterOutputs ==
    /\ pc = "done"
    /\ env.output_format = "both"
    /\ slack.calls = 1 /\ slack.outcome \in SlackFailures
    /\ OutputsProduced
    /\ recommendations # <<>>
    /\ slack.yaml_output = yaml_output /\ slack.table_output = html_table_output

----------------------------------------------------------------------------
(* The percentile of calculate_recommendations.                            *)

MaxSeries == 22

\* the samples 1 .. n in ascending order, turned by r places
Turned(n, r) == [i \in 1..n |-> NatToStr(((i - 1 + r) % n) + 1)]

Reversed(s) == [i \in 1..Len(s) |-> s[Len(s) + 1 - i]]

\* series of 1 .. MaxSeries distinct samples in 2n orders each, and series
\* with equal samples
Series ==
    {Turned(n, r) : n \in 1..MaxSeries, r \in 0..(MaxSeries - 1)}
        \cup {Reversed(Turned(n, r)) : n \in 1..MaxSeries, r \in 0..(MaxSeries - 1)}
        \cup {Repeat(<<"0", ".", "1">>, 19) \o << <<"0", ".", "5">>, <<"2">> >>,
              << <<"2">>, <<"0", ".", "5">> >> \o Repeat(<<"0", ".", "1">>, 19),
              Repeat(<<"2">>, 2) \o Repeat(<<"1">>, 18),
              Repeat(<<"1">>, 18) \o Repeat(<<"2">>, 2)}

InitP95 ==
    /\ pc = "cpu_values"
    /\ cin \in [cpu_data : {OneResult(s) : s \in Series}, buffer_percent : {0}]
    /\ cout = Idle
    /\ pin = Idle /\ pout = Idle
    /\ recommendations = <<>>
    /\ table_output = NotRendered /\ html_table_output = NotRendered
    /\ yaml_output = NotRendered
    /\ env = Idle /\ pods = <<>> /\ idx = 0 /\ log = <<>>
    /\ file = Idle /\ slack = Idle

\* calculate_recommendations(cpu_data, [], buffer_percent): its locals
\* cpu_mean and cpu_p95, and what it returns
CalculateP95 ==
    /\ pc = "cpu_values"
    /\ LET Locals(cpu_values) ==
               cout' = [cpu_mean |-> Mean(cpu_values),
                        cpu_p95 |-> P95(cpu_values),
                        result |-> calculate_recommendations(
                                       cin.cpu_data, <<>>, cin.buffer_percent)]
       IN  Locals(Floats(Flatten(cin.cpu_data)))
    /\ pc' = "calculated"
    /\ UNCHANGED <<pin, pout, cin, recommendations, table_output,
                   html_table_output, yaml_output, env, pods, idx, log, file,
                   slack>>

NextP95 == CalculateP95

SpecP95 == InitP95 /\ [][NextP95]_vars

\* x is what stands at 0-indexed position k of the samples in ascending
\* order: at most k samples are below x and more than k are not above it
AtSortedPosition(x, samples, k) ==
    /\ \E i \in 1..Len(samples) : samples[i] = x
    /\ Cardinality({i \in 1..Len(samples) : XLess(samples[i], x)}) <= k
    /\ Cardinality({i \in 1..Len(samples) : XLeq(samples[i], x)}) > k

\* the claim for a list of samples
NearestRank(samples, n) ==
    /\ (n * 95) \div 100 \in 0..(n - 1)
    /\ n >= 2 => AtSortedPosition(cout.cpu_p95, samples, (n * 95) \div 100)
    /\ n = 1 => cout.cpu_p95 = samples[1] /\ cout.cpu_p95 = cout.cpu_mean

\* C17: for n >= 2 samples p95 is the sample at 0-indexed position
\* floor(n * 0.95) of the samples in ascending order, whatever the order they
\* came in, and that position is within 0 .. n-1; for one sample p95 is that
\* sample, which is also the mean
C17_P95NearestRank ==
    pc = "calculated" =>
        NearestRank(Floats(Flatten(cin.cpu_data)), Len(Flatten(cin.cpu_data)))

\* 20 samples, the greatest first: p95 is the greatest (position 19), not the
\* one below it
C17_TwentySamples ==
    /\ pc = "calculated"
    /\ Flatten(cin.cpu_data) = Reversed(Turned(20, 0))
    /\ cout.cpu_p95 = Fin(Int2Num(20))
    /\ ~cout.result.raised
    /\ cout.result.val.limits.cpu = <<"2", "0", "0", "0", "0", "m">>

----------------------------------------------------------------------------
(* The order of the groups in the reports.                                 *)

\* the pair a group is displayed under: the namespace of its first-seen
\* member and the container name
DisplayKey(kept, name) == <<FirstSeen(kept, name).namespace, name>>

\* pair a comes before pair b, strings compared character by character
PairBefore(a, b) ==
    \/ StrLess(a[1], b[1])
    \/ a[1] = b[1] /\ StrLess(a[2], b[2])

\* the rows of a report ascend strictly by display key
Ascending(out, kept) ==
    \A i, j \in 1..Len(out.rows) :
        i < j => PairBefore(DisplayKey(kept, out.rows[i].container),
                            DisplayKey(kept, out.rows[j].container))

\* C18: each renderer emits its groups in ascending order of the pair
\* (namespace of the first-seen member, container name); no two groups have
\* the same pair, so the order is fixed by the groups and their first-seen
\* members, whatever the order of the pods
C18_SortedByNamespaceAndName ==
    pc = "rendered" =>
        /\ AllRendered
        /\ \A out \in {table_output, html_table_output, yaml_output} :
              /\ Ascending(out, Survivors(recommendations))
              /\ \A i, j \in 1..Len(out.rows) :
                    i # j => out.rows[i].container # out.rows[j].container
        /\ \A out \in {table_output, html_table_output} :
              \A i \in 1..Len(out.rows) :
                 out.rows[i].namespace =
                    DisplayKey(Survivors(recommendations),
                               out.rows[i].container)[1]

\* app is seen first, in namespace b, and db second, in namespace a: every
\* report puts db before app
C18_LaterGroupFirst ==
    /\ AllRendered
    /\ Len(recommendations) = 2
    /\ recommendations[1].namespace = <<"b">>
    /\ recommendations[2].namespace = <<"a">>
    /\ recommendations[1].containers = << Container(App, CurSet, RecCpu) >>
    /\ recommendations[2].containers =
          << Container(Web, CurSet, RecSame), Container(App, Unset, RecFloor),
             Container(Db, Unset, RecFloor) >>
    /\ \A out \in {table_output, html_table_output, yaml_output} :
          /\ Len(out.rows) = 2
          /\ out.rows[1].container = Db /\ out.rows[2].container = App
    /\ table_output.rows[1].namespace = <<"a">>
    /\ table_output.rows[2].namespace = <<"b">>

----------------------------------------------------------------------------
(* Containers that have no resources set, from analysis to the reports.    *)

GroupSize == 2

\* the metrics of a container: no CPU samples, a sample below the floor, 2
\* cores, a low and a high sample, NaN; no memory samples or 10^9 bytes
MemberCpu ==
    { <<>>,
      OneResult(<< <<"0", ".", "0", "0", "4">> >>),
      OneResult(<< <<"2">> >>),
      OneResult(<< <<"0", ".", "0", "0", "4">>, <<"2">> >>),
      OneResult(<< <<"N", "a", "N">> >>) }

MemberMem ==
    { <<>>, OneResult(<< <<"1", "0", "0", "0", "0", "0", "0", "0", "0", "0">> >>) }

\* the containers analysed in a run, one per pod: the first two are named
\* app, a third db
MemberName(k) == IF k = 3 THEN Db ELSE App

MemberNamespace(k) == IF k = 2 THEN NsB ELSE NsA

InitUnset ==
    /\ pc = "analyze_pod"
    /\ \E n \in 1..GroupSize :
          cin \in [members : [1..n -> [cpu_data : MemberCpu, mem_data : MemberMem]],
                   buffer_percent : {0, 100}]
    /\ cout = Idle
    /\ pin = Idle /\ pout = Idle
    /\ recommendations = <<>>
    /\ table_output = NotRendered /\ html_table_output = NotRendered
    /\ yaml_output = NotRendered
    /\ env = [use_colors |-> TRUE]
    /\ pods = <<>> /\ idx = 0 /\ log = <<>>
    /\ file = Idle /\ slack = Idle

\* analyze_pod for the next pod: its container has no requests and no
\* limits; an exception of calculate_recommendations ends the run
AnalyzeUnset ==
    /\ pc = "analyze_pod" /\ idx < Len(cin.members)
    /\ LET Analyzed(rec) ==
               IF rec.raised
               THEN /\ pc' = "crashed"
                    /\ UNCHANGED recommendations
               ELSE /\ recommendations' =
                          Append(recommendations,
                                 [pod |-> PodName(idx + 1),
                                  namespace |-> MemberNamespace(idx + 1),
                                  containers |->
                                     << Container(MemberName(idx + 1),
                                                  CurrentResources(SpecUnset),
                                                  rec.val) >>])
                    /\ pc' = IF idx + 1 = Len(cin.members)
                             THEN "format_as_table" ELSE "analyze_pod"
       IN  Analyzed(calculate_recommendations(cin.members[idx + 1].cpu_data,
                                              cin.members[idx + 1].mem_data,
                                              cin.buffer_percent))
    /\ idx' = idx + 1
    /\ UNCHANGED <<pin, pout, cin, cout, table_output, html_table_output,
                   yaml_output, env, pods, log, file, slack>>

NextUnset == AnalyzeUnset \/ RenderTable \/ RenderHtml \/ RenderYaml

SpecUnsetContainers == InitUnset /\ [][NextUnset]_vars

\* the whole number written before the unit of a formatted quantity
WholeOf(quantity, unit) == DigitsVal(DropLast(quantity, Len(unit)))

\* limits are not below requests in a bundle of formatted quantities
LimitsCoverRequests(bundle) ==
    /\ WholeOf(bundle.limits.cpu, <<"m">>)
           >= WholeOf(bundle.requests.cpu, <<"m">>)
    /\ WholeOf(bundle.limits.memory, <<"M", "i">>)
           >= WholeOf(bundle.requests.memory, <<"M", "i">>)

\* C19: in every recommendation calculate_recommendations returns and in
\* every block of the patch document, the whole millicores of limits.cpu are
\* not below those of requests.cpu and the whole Mi of limits.memory are not
\* below those of requests.memory
C19_LimitNotBelowRequest ==
    /\ \A i \in 1..Len(recommendations) :
          \A j \in 1..Len(recommendations[i].containers) :
             LimitsCoverRequests(recommendations[i].containers[j].recommended)
    /\ \A i \in 1..Len(yaml_output.rows) :
          LimitsCoverRequests(yaml_output.rows[i])

\* one group of two members: the CPU maxima come from the first member (2
\* cores), the memory maxima from the second (10^9 bytes)
C19_MaximaOfDifferentMembers ==
    /\ pc = "rendered" /\ ~yaml_output.raised
    /\ Len(recommendations) = 2 /\ cin.buffer_percent = 0
    /\ cin.members[1] = [cpu_data |-> OneResult(<< <<"2">> >>), mem_data |-> <<>>]
    /\ cin.members[2].cpu_data = OneResult(<< <<"0", ".", "0", "0", "4">> >>)
    /\ cin.members[2].mem_data # <<>>
    /\ Len(yaml_output.rows) = 1
    /\ yaml_output.rows[1].requests =
          [cpu |-> <<"2", "0", "0", "0", "m">>, memory |-> <<"9", "5", "3", "M", "i">>]
    /\ yaml_output.rows[1].limits =
          [cpu |-> <<"3", "0", "0", "0", "m">>,
           memory |-> <<"1", "4", "3", "0", "M", "i">>]
    /\ LimitsCoverRequests(yaml_output.rows[1])

\* the same for every recommendation returned for the sample series and the
\* buffers of SpecCalc
C19_ReturnedLimitNotBelowRequest ==
    (pc = "calculated" /\ ~cout.raised) => LimitsCoverRequests(cout.val)

\* a container name heads a row (a block) of a report
Reported(out, name) ==
    /\ ~out.raised
    /\ \E i \in 1..Len(out.rows) : out.rows[i].container = name

\* every analysed container differs from its recommendation, whose requests
\* are at least 10m and 16Mi, and is in each of the three reports
UnsetReported ==
    /\ \A i \in 1..Len(recommendations) :
          \A j \in 1..Len(recommendations[i].containers) :
             LET Kept(c) ==
                     /\ c.current = [requests |-> <<>>, limits |-> <<>>]
                     /\ ~resources_are_same(c.current, c.recommended).raised
                     /\ ~resources_are_same(c.current, c.recommended).val
                     /\ WholeOf(c.recommended.requests.cpu, <<"m">>) >= 10
                     /\ WholeOf(c.recommended.requests.memory, <<"M", "i">>) >= 16
             IN  Kept(recommendations[i].containers[j])
    /\ pc = "rendered" =>
          \A k \in 1..Len(cin.members) :
             /\ Reported(table_output, MemberName(k))
             /\ Reported(html_table_output, MemberName(k))
             /\ Reported(yaml_output, MemberName(k))

\* C20: a container without requests and limits is never left out as
\* unchanged: whatever the sample series and for buffer_percent in 0..100
\* its recommended requests are at least 10m and 16Mi, resources_are_same
\* is false for it, and it is in the table, the HTML table and the patch
\* document of the run
C20_UnsetNeverSuppressed ==
    /\ pc # "crashed"
    /\ UnsetReported

\* the CPU series of the second container holds NaN: the run ends in the
\* exception of calculate_recommendations and no report is made, so the
\* first container, analysed already, is in none
C20_NaNSeriesNoReport ==
    /\ pc = "crashed"
    /\ Len(cin.members) = 2
    /\ cin.members[1].cpu_data = <<>>
    /\ cin.members[2].cpu_data = OneResult(<< <<"N", "a", "N">> >>)
    /\ Len(recommendations) = 1
    /\ table_output = NotRendered /\ html_table_output = NotRendered
    /\ yaml_output = NotRendered

\* what does hold: every container whose analysis returns is kept by the
\* three renderers
C20_UnsetReportedWhenAnalysed == UnsetReported

====
